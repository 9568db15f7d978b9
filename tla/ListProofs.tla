----------------------------- MODULE ListProofs -----------------------------
(***************************************************************************)
(* Lemmas about the sums, choices and sorting of Lists, and about counting,*)
(* for the proofs of the modules that use them.                            *)
(***************************************************************************)
EXTENDS Lists, FiniteSetTheorems, SequenceTheorems, WellFoundedInduction, TLAPS

(* A set of natural numbers with an element has a least one.               *)
LEMMA LeastElement ==
  ASSUME NEW S \in SUBSET Nat, S # {}
  PROVE  \E k \in S : \A m \in S : k <= m
<1> DEFINE R == OpToRel(<, Nat)
<1>1. R = {ss \in Nat \X Nat : ss[1] < ss[2]}
  BY DEF OpToRel
<1>2. IsWellFoundedOn(R, Nat)
  BY NatLessThanWellFounded
<1> HIDE DEF R
<1>3. PICK k \in S : \A m \in S : ~(<<m, k>> \in R)
  BY <1>2, WFMin
<1>4. ASSUME NEW m \in S PROVE k <= m
  <2>1. ~(m < k)
    BY <1>1, <1>3
  <2> QED
    BY <2>1
<1> QED
  BY <1>4

(* The rank of an element is the number of smaller ones; Nth is the one of *)
(* a rank.                                                                 *)
Rank(S, k) == Cardinality({l \in S : l < k})

LEMMA RankFacts ==
  ASSUME NEW S \in SUBSET Nat, IsFiniteSet(S)
  PROVE  /\ Cardinality(S) \in Nat
         /\ \A k \in S : Rank(S, k) \in 0..(Cardinality(S) - 1)
         /\ \A k, l \in S : k < l <=> Rank(S, k) < Rank(S, l)
         /\ \A r \in 0..(Cardinality(S) - 1) : \E k \in S : Rank(S, k) = r
<1> DEFINE B(k) == {l \in S : l < k}
           n == Cardinality(S)
<1>1. n \in Nat
  BY FS_CardinalityType
<1>2. ASSUME NEW k \in S PROVE IsFiniteSet(B(k)) /\ Cardinality(B(k)) \in 0..(n - 1)
  <2>1. B(k) \in SUBSET S /\ B(k) # S
    <3>1. k \notin B(k)
      OBVIOUS
    <3> QED
      BY <3>1
  <2> HIDE DEF B
  <2>2. IsFiniteSet(B(k)) /\ Cardinality(B(k)) <= n /\ Cardinality(B(k)) # n
    BY <2>1, FS_Subset
  <2>3. Cardinality(B(k)) \in Nat
    BY <2>2, FS_CardinalityType
  <2> QED
    BY <1>1, <2>2, <2>3
<1>3. ASSUME NEW k \in S, NEW l \in S, k < l PROVE Cardinality(B(k)) < Cardinality(B(l))
  <2>1. B(k) \in SUBSET B(l) /\ B(k) # B(l)
    <3>1. k \in B(l) /\ k \notin B(k)
      BY <1>3
    <3>2. ASSUME NEW m \in S, m < k PROVE m < l
      BY <1>3, <3>2
    <3> QED
      BY <3>1, <3>2
  <2>2. IsFiniteSet(B(l)) /\ Cardinality(B(l)) \in Nat /\ Cardinality(B(k)) \in Nat
    BY <1>1, <1>2
  <2> HIDE DEF B
  <2>3. Cardinality(B(k)) <= Cardinality(B(l)) /\ Cardinality(B(k)) # Cardinality(B(l))
    BY <2>1, <2>2, FS_Subset
  <2> QED
    BY <2>2, <2>3
<1>4. ASSUME NEW k \in S, NEW l \in S PROVE k < l <=> Cardinality(B(k)) < Cardinality(B(l))
  <2>1. Cardinality(B(k)) \in Nat /\ Cardinality(B(l)) \in Nat /\ k \in Nat /\ l \in Nat
    BY <1>1, <1>2
  <2>2. k < l => Cardinality(B(k)) < Cardinality(B(l))
    BY <1>3
  <2>3. l < k => Cardinality(B(l)) < Cardinality(B(k))
    BY <1>3
  <2> HIDE DEF B
  <2>4. k = l \/ k < l \/ l < k
    BY <2>1
  <2> QED
    BY <2>1, <2>2, <2>3, <2>4
<1> DEFINE f == [k \in S |-> Cardinality(B(k))]
           R == 0..(n - 1)
<1> HIDE DEF B
<1>5. f \in Injection(S, R)
  <2>1. f \in [S -> R]
    BY <1>2
  <2>2. ASSUME NEW k \in S, NEW l \in S, f[k] = f[l] PROVE k = l
    <3>1. Cardinality(B(k)) = Cardinality(B(l)) /\ Cardinality(B(k)) \in Nat
      BY <1>1, <1>2, <2>2
    <3>2. ~(k < l) /\ ~(l < k) /\ k \in Nat /\ l \in Nat
      BY <1>4, <3>1
    <3> QED
      BY <3>2
  <2> HIDE DEF f
  <2> QED
    BY <2>1, <2>2 DEF Injection, IsInjective
<1>6. IsFiniteSet(R) /\ Cardinality(R) = n
  <2>1. 0 \in Int /\ n - 1 \in Int
    BY <1>1
  <2>2. IsFiniteSet(R) /\ Cardinality(R) = IF 0 > n - 1 THEN 0 ELSE (n - 1) - 0 + 1
    BY <2>1, FS_Interval
  <2> HIDE DEF R
  <2> QED
    BY <1>1, <2>2
<1>7. f \in Surjection(S, R)
  <2> HIDE DEF f, R, n
  <2> QED
    BY <1>5, <1>6, FS_Injection DEF n
<1>8. ASSUME NEW r \in R PROVE \E k \in S : Cardinality(B(k)) = r
  <2>1. \E k \in S : f[k] = r
    <3> HIDE DEF f, R
    <3> QED
      BY <1>7 DEF Surjection
  <2> QED
    BY <2>1
<1> QED
  BY <1>1, <1>2, <1>4, <1>8 DEF Rank, B

LEMMA NthFacts ==
  ASSUME NEW S \in SUBSET Nat, IsFiniteSet(S)
  PROVE  /\ Cardinality(S) \in Nat
         /\ \A k \in 1..Cardinality(S) : Nth(S, k) \in S
         /\ \A k, l \in 1..Cardinality(S) : Nth(S, k) = Nth(S, l) => k = l
<1>1. Cardinality(S) \in Nat
  BY RankFacts
<1>2. ASSUME NEW k \in 1..Cardinality(S)
      PROVE  Nth(S, k) \in S /\ Cardinality({y \in S : y < Nth(S, k)}) = k - 1
  <2>1. k - 1 \in 0..(Cardinality(S) - 1)
    BY <1>1
  <2>2. \E x \in S : Cardinality({y \in S : y < x}) = k - 1
    <3>1. \E x \in S : Rank(S, x) = k - 1
      BY <2>1, RankFacts
    <3> QED
      BY <3>1 DEF Rank
  <2> QED
    BY <2>2 DEF Nth
<1>3. ASSUME NEW k \in 1..Cardinality(S), NEW l \in 1..Cardinality(S), Nth(S, k) = Nth(S, l)
      PROVE  k = l
  <2>1. k - 1 = l - 1
    BY <1>2, <1>3
  <2> QED
    BY <1>1, <2>1
<1> QED
  BY <1>1, <1>2, <1>3

(* What a loop computes in n rounds: the states it passes exist.           *)
Within(F, n, S) == \A k \in 1..n : \A x \in S : F[k][x] \in S
Follows(f, start, n, F) == f[0] = start /\ \A k \in 1..n : f[k] = F[k][f[k - 1]]

LEMMA Recursion ==
  ASSUME NEW S, NEW start \in S, NEW n \in Nat, NEW F, Within(F, n, S)
  PROVE  \E f \in [0..n -> S] : Follows(f, start, n, F)
<1> USE DEF Within, Follows
<1> DEFINE Runs(m) == {f \in [0..m -> S] : f[0] = start /\ \A k \in 1..m : f[k] = F[k][f[k - 1]]}
           Bad == {m \in 0..n : Runs(m) = {}}
<1>1. Bad = {}
  <2> SUFFICES ASSUME Bad # {} PROVE FALSE
    OBVIOUS
  <2>1. PICK m \in Bad : \A q \in Bad : m <= q
    <3>1. Bad \in SUBSET Nat
      OBVIOUS
    <3> HIDE DEF Bad
    <3> QED
      BY <3>1, LeastElement
  <2>2. m \in 0..n /\ m \in Nat /\ Runs(m) = {}
    OBVIOUS
  <2>3. CASE m = 0
    <3> DEFINE f == [k \in 0..0 |-> start]
    <3>1. f \in [0..0 -> S] /\ f[0] = start /\ 1..0 = {}
      OBVIOUS
    <3> HIDE DEF f
    <3>2. f \in Runs(0)
      BY <3>1
    <3> QED
      BY <2>2, <2>3, <3>2
  <2>4. CASE m # 0
    <3> DEFINE q == m - 1
    <3>1. q \in 0..n /\ q \in Nat /\ m = q + 1 /\ ~(m <= q)
      BY <2>2, <2>4
    <3> HIDE DEF q
    <3>2. Runs(q) # {}
      BY <2>1, <3>1
    <3>3. PICK f \in [0..q -> S] : f[0] = start /\ \A k \in 1..q : f[k] = F[k][f[k - 1]]
      BY <3>2
    <3> DEFINE g == [k \in 0..m |-> IF k = m THEN F[m][f[q]] ELSE f[k]]
    <3>4. m \in 1..n /\ f[q] \in S
      BY <2>2, <3>1
    <3>5. F[m][f[q]] \in S
      BY <3>4
    <3>6. g \in [0..m -> S]
      <4> SUFFICES ASSUME NEW k \in 0..m PROVE (IF k = m THEN F[m][f[q]] ELSE f[k]) \in S
        OBVIOUS
      <4>1. k # m => k \in 0..q
        BY <3>1
      <4> QED
        BY <3>5, <4>1
    <3>7. g[0] = start
      BY <2>2, <2>4, <3>3
    <3>8. ASSUME NEW k \in 1..m PROVE g[k] = F[k][g[k - 1]]
      <4>1. k \in 0..m /\ k - 1 \in 0..m /\ k - 1 # m /\ k - 1 \in 0..q
        BY <3>1
      <4>2. g[k - 1] = f[k - 1]
        BY <4>1
      <4>3. CASE k = m
        <5>1. g[k] = F[m][f[q]] /\ k - 1 = q
          BY <3>1, <4>1, <4>3
        <5> QED
          BY <4>2, <4>3, <5>1
      <4>4. CASE k # m
        <5>1. g[k] = f[k] /\ k \in 1..q
          BY <3>1, <4>1, <4>4
        <5> QED
          BY <3>3, <4>2, <5>1
      <4> QED
        BY <4>3, <4>4
    <3> HIDE DEF g
    <3>9. g \in Runs(m)
      BY <3>6, <3>7, <3>8
    <3> QED
      BY <2>2, <3>9
  <2> QED
    BY <2>3, <2>4
<1>2. Runs(n) # {}
  <2>1. n \in 0..n
    OBVIOUS
  <2> QED
    BY <1>1, <2>1
<1> QED
  BY <1>2

(* Sums: t[k] is the sum of the first k numbers of v.                      *)
Running(v, n, t) == /\ t \in [0..n -> Int]
                    /\ t[0] = 0
                    /\ \A k \in 1..n : t[k] = t[k - 1] + v[k]

LEMMA LenOf ==
  ASSUME NEW n \in Nat, NEW v, DOMAIN v = 1..n, NEW S, \A k \in 1..n : v[k] \in S,
         v = [k \in 1..n |-> v[k]]
  PROVE  v \in Seq(S) /\ Len(v) = n
<1>1. v \in Seq(S)
  BY IsASeq
<1>2. DOMAIN v = 1..Len(v) /\ Len(v) \in Nat
  BY <1>1, LenProperties
<1> QED
  BY <1>1, <1>2

LEMMA SumLen ==
  ASSUME NEW n \in Nat, NEW v \in [1..n -> Int]
  PROVE  v \in Seq(Int) /\ Len(v) = n
<1>1. DOMAIN v = 1..n /\ (\A k \in 1..n : v[k] \in Int) /\ v = [k \in 1..n |-> v[k]]
  OBVIOUS
<1> QED
  BY <1>1, LenOf

LEMMA SumRuns ==
  ASSUME NEW n \in Nat, NEW v \in [1..n -> Int]
  PROVE  \E t : Running(v, n, t) /\ SumOf(v) = t[n]
<1> DEFINE F == [k \in 1..n |-> [x \in Int |-> x + v[k]]]
           up == CHOOSE up : up = [m \in 0..n |-> IF m = 0 THEN 0 ELSE up[m - 1] + v[m]]
<1>1. Len(v) = n
  BY SumLen
<1>2. ASSUME NEW k \in 1..n, NEW x \in Int PROVE F[k][x] = x + v[k] /\ F[k][x] \in Int
  OBVIOUS
<1> HIDE DEF F
<1>3. Within(F, n, Int)
  BY <1>2 DEF Within
<1>4. 0 \in Int
  OBVIOUS
<1>5. PICK f \in [0..n -> Int] : Follows(f, 0, n, F)
  BY <1>3, <1>4, Recursion
<1>6. f[0] = 0 /\ \A k \in 1..n : f[k] = f[k - 1] + v[k]
  <2> SUFFICES ASSUME NEW k \in 1..n PROVE f[k] = f[k - 1] + v[k]
    BY <1>5 DEF Follows
  <2>1. k - 1 \in 0..n
    OBVIOUS
  <2>2. f[k - 1] \in Int
    BY <2>1
  <2> QED
    BY <1>2, <1>5, <2>2 DEF Follows
<1>7. f = [m \in 0..n |-> IF m = 0 THEN 0 ELSE f[m - 1] + v[m]]
  BY <1>6
<1>8. up = [m \in 0..n |-> IF m = 0 THEN 0 ELSE up[m - 1] + v[m]]
  BY <1>7
<1>9. SumOf(v) = up[n]
  BY <1>1 DEF SumOf
<1> HIDE DEF up
<1>10. Running(v, n, up)
  <2>1. \A m \in 0..n : up[m] = IF m = 0 THEN 0 ELSE up[m - 1] + v[m]
    BY <1>8
  <2>2. \A m \in 0..n : up[m] = f[m]
    <3> DEFINE Bad == {m \in 0..n : up[m] # f[m]}
    <3> SUFFICES ASSUME Bad # {} PROVE FALSE
      OBVIOUS
    <3>1. PICK m \in Bad : \A q \in Bad : m <= q
      <4>1. Bad \in SUBSET Nat
        OBVIOUS
      <4> HIDE DEF Bad
      <4> QED
        BY <4>1, LeastElement
    <3>2. m \in 0..n /\ up[m] # f[m]
      OBVIOUS
    <3>3. m # 0
      BY <1>6, <2>1, <3>2
    <3>4. m - 1 \in 0..n /\ ~(m <= m - 1) /\ m \in 1..n
      BY <3>2, <3>3
    <3>5. up[m - 1] = f[m - 1]
      BY <3>1, <3>4
    <3>6. f[m] = f[m - 1] + v[m] /\ up[m] = up[m - 1] + v[m]
      BY <1>6, <2>1, <3>2, <3>3, <3>4
    <3> QED
      BY <3>2, <3>5, <3>6
  <2>3. up \in [0..n -> Int]
    BY <1>8, <2>2
  <2>4. 0 \in 0..n /\ \A k \in 1..n : k \in 0..n /\ k # 0
    OBVIOUS
  <2> QED
    BY <2>1, <2>3, <2>4 DEF Running
<1> QED
  BY <1>9, <1>10

(* There is one such t, so a sum is found by naming it.                    *)
LEMMA RunningIsOne ==
  ASSUME NEW n \in Nat, NEW v \in [1..n -> Int], NEW t, NEW u, Running(v, n, t), Running(v, n, u)
  PROVE  t[n] = u[n]
<1> DEFINE Bad == {m \in 0..n : t[m] # u[m]}
<1>1. Bad = {}
  <2> SUFFICES ASSUME Bad # {} PROVE FALSE
    OBVIOUS
  <2>1. PICK m \in Bad : \A q \in Bad : m <= q
    <3>1. Bad \in SUBSET Nat
      OBVIOUS
    <3> HIDE DEF Bad
    <3> QED
      BY <3>1, LeastElement
  <2>2. m \in 0..n /\ t[m] # u[m]
    OBVIOUS
  <2>3. m # 0
    BY <2>2 DEF Running
  <2>4. m - 1 \in 0..n /\ ~(m <= m - 1) /\ m \in 1..n
    BY <2>2, <2>3
  <2>5. t[m - 1] = u[m - 1]
    BY <2>1, <2>4
  <2> QED
    BY <2>2, <2>4, <2>5 DEF Running
<1>2. n \in 0..n
  OBVIOUS
<1> QED
  BY <1>1, <1>2

LEMMA SumIs ==
  ASSUME NEW n \in Nat, NEW v \in [1..n -> Int], NEW t, Running(v, n, t)
  PROVE  SumOf(v) = t[n]
BY SumRuns, RunningIsOne

LEMMA SumType ==
  ASSUME NEW n \in Nat, NEW v \in [1..n -> Int]
  PROVE  SumOf(v) \in Int
<1>1. PICK t : Running(v, n, t) /\ SumOf(v) = t[n]
  BY SumRuns
<1>2. n \in 0..n
  OBVIOUS
<1> QED
  BY <1>1, <1>2 DEF Running

LEMMA SumAdd ==
  ASSUME NEW n \in Nat, NEW v \in [1..n -> Int], NEW w \in [1..n -> Int]
  PROVE  SumOf([k \in 1..n |-> v[k] + w[k]]) = SumOf(v) + SumOf(w)
<1> DEFINE s == [k \in 1..n |-> v[k] + w[k]]
<1>1. PICK t : Running(v, n, t) /\ SumOf(v) = t[n]
  BY SumRuns
<1>2. PICK u : Running(w, n, u) /\ SumOf(w) = u[n]
  BY SumRuns
<1> DEFINE x == [k \in 0..n |-> t[k] + u[k]]
<1>3. s \in [1..n -> Int]
  OBVIOUS
<1>4. Running(s, n, x)
  <2>1. x \in [0..n -> Int] /\ x[0] = 0
    BY <1>1, <1>2 DEF Running
  <2>2. ASSUME NEW k \in 1..n PROVE x[k] = x[k - 1] + s[k]
    <3>1. k \in 0..n /\ k - 1 \in 0..n
      OBVIOUS
    <3>2. t[k] = t[k - 1] + v[k] /\ u[k] = u[k - 1] + w[k]
      BY <1>1, <1>2 DEF Running
    <3>3. t[k - 1] \in Int /\ u[k - 1] \in Int /\ v[k] \in Int /\ w[k] \in Int
      BY <1>1, <1>2, <3>1 DEF Running
    <3>4. x[k] = t[k] + u[k] /\ x[k - 1] = t[k - 1] + u[k - 1] /\ s[k] = v[k] + w[k]
      BY <3>1
    <3> HIDE DEF x, s
    <3> QED
      BY <3>2, <3>3, <3>4
  <2> HIDE DEF x, s
  <2> QED
    BY <2>1, <2>2 DEF Running
<1>5. x[n] = t[n] + u[n]
  OBVIOUS
<1> HIDE DEF x, s
<1>6. SumOf(s) = x[n]
  BY <1>3, <1>4, SumIs
<1> QED
  BY <1>1, <1>2, <1>5, <1>6 DEF s

LEMMA SumSub ==
  ASSUME NEW n \in Nat, NEW v \in [1..n -> Int], NEW w \in [1..n -> Int]
  PROVE  SumOf([k \in 1..n |-> v[k] - w[k]]) = SumOf(v) - SumOf(w)
<1> DEFINE s == [k \in 1..n |-> v[k] - w[k]]
           a == [k \in 1..n |-> s[k] + w[k]]
<1>1. s \in [1..n -> Int] /\ a = v
  OBVIOUS
<1> HIDE DEF s
<1>2. SumOf(a) = SumOf(s) + SumOf(w)
  BY <1>1, SumAdd
<1>3. SumOf(s) \in Int /\ SumOf(w) \in Int
  BY <1>1, SumType
<1> HIDE DEF a
<1>4. SumOf(s) = SumOf(v) - SumOf(w)
  BY <1>1, <1>2, <1>3
<1> QED
  BY <1>4 DEF s

(* A sum of no other number than one is that number.                       *)
LEMMA SumOne ==
  ASSUME NEW n \in Nat, NEW v \in [1..n -> Int], NEW j \in 1..n,
         \A k \in 1..n : k # j => v[k] = 0
  PROVE  SumOf(v) = v[j]
<1> DEFINE x == [k \in 0..n |-> IF k < j THEN 0 ELSE v[j]]
<1>1. Running(v, n, x)
  <2>1. x \in [0..n -> Int] /\ x[0] = 0
    OBVIOUS
  <2>2. ASSUME NEW k \in 1..n PROVE x[k] = x[k - 1] + v[k]
    <3>1. k \in 0..n /\ k - 1 \in 0..n /\ v[k] \in Int /\ v[j] \in Int
      OBVIOUS
    <3>2. x[k] = (IF k < j THEN 0 ELSE v[j]) /\ x[k - 1] = (IF k - 1 < j THEN 0 ELSE v[j])
      BY <3>1
    <3> HIDE DEF x
    <3> QED
      BY <3>1, <3>2
  <2> HIDE DEF x
  <2> QED
    BY <2>1, <2>2 DEF Running
<1>2. x[n] = v[j]
  OBVIOUS
<1> HIDE DEF x
<1> QED
  BY <1>1, <1>2, SumIs

LEMMA SumNone ==
  ASSUME NEW n \in Nat, NEW v \in [1..n -> Int], \A k \in 1..n : v[k] = 0
  PROVE  SumOf(v) = 0
<1> DEFINE x == [k \in 0..n |-> 0]
<1>1. Running(v, n, x)
  <2>1. x \in [0..n -> Int] /\ x[0] = 0
    OBVIOUS
  <2>2. ASSUME NEW k \in 1..n PROVE x[k] = x[k - 1] + v[k]
    <3>1. k \in 0..n /\ k - 1 \in 0..n /\ v[k] = 0
      OBVIOUS
    <3> QED
      BY <3>1
  <2> HIDE DEF x
  <2> QED
    BY <2>1, <2>2 DEF Running
<1>2. x[n] = 0
  OBVIOUS
<1> HIDE DEF x
<1> QED
  BY <1>1, <1>2, SumIs

LEMMA SumNat ==
  ASSUME NEW n \in Nat, NEW v \in [1..n -> Int], \A k \in 1..n : v[k] >= 0
  PROVE  SumOf(v) >= 0
<1>1. PICK t : Running(v, n, t) /\ SumOf(v) = t[n]
  BY SumRuns
<1> DEFINE Bad == {m \in 0..n : ~(t[m] >= 0)}
<1>2. Bad = {}
  <2> SUFFICES ASSUME Bad # {} PROVE FALSE
    OBVIOUS
  <2>1. PICK m \in Bad : \A q \in Bad : m <= q
    <3>1. Bad \in SUBSET Nat
      OBVIOUS
    <3> HIDE DEF Bad
    <3> QED
      BY <3>1, LeastElement
  <2>2. m \in 0..n /\ ~(t[m] >= 0)
    OBVIOUS
  <2>3. m # 0
    BY <1>1, <2>2 DEF Running
  <2>4. m - 1 \in 0..n /\ ~(m <= m - 1) /\ m \in 1..n
    BY <2>2, <2>3
  <2>5. t[m - 1] >= 0 /\ t[m - 1] \in Int /\ v[m] \in Int /\ v[m] >= 0
    BY <1>1, <2>1, <2>4 DEF Running
  <2>6. t[m] = t[m - 1] + v[m]
    BY <1>1, <2>4 DEF Running
  <2> QED
    BY <2>2, <2>5, <2>6
<1>3. n \in 0..n
  OBVIOUS
<1> QED
  BY <1>1, <1>2, <1>3

LEMMA SumMono ==
  ASSUME NEW n \in Nat, NEW v \in [1..n -> Int], NEW w \in [1..n -> Int],
         \A k \in 1..n : v[k] <= w[k]
  PROVE  SumOf(v) <= SumOf(w)
<1> DEFINE s == [k \in 1..n |-> w[k] - v[k]]
<1>1. s \in [1..n -> Int] /\ \A k \in 1..n : s[k] >= 0
  OBVIOUS
<1>2. SumOf(s) = SumOf(w) - SumOf(v)
  BY SumSub
<1> HIDE DEF s
<1>3. SumOf(s) >= 0
  BY <1>1, SumNat
<1>4. SumOf(v) \in Int /\ SumOf(w) \in Int
  BY SumType
<1> QED
  BY <1>2, <1>3, <1>4

(* Rows of columns and columns of rows.                                    *)
Table(m, n) == [1..m -> [1..n -> Int]]
ByRows(M, m, n) == SumOf([j \in 1..m |-> SumOf([k \in 1..n |-> M[j][k]])])
ByColumns(M, m, n) == SumOf([k \in 1..n |-> SumOf([j \in 1..m |-> M[j][k]])])

LEMMA SumSwap ==
  ASSUME NEW m \in Nat, NEW n \in Nat, NEW M \in Table(m, n)
  PROVE  ByRows(M, m, n) = ByColumns(M, m, n)
<1> DEFINE row == [j \in 1..m |-> SumOf([k \in 1..n |-> M[j][k]])]
           col(k) == [j \in 1..m |-> M[j][k]]
           t == [k \in 1..n |-> CHOOSE u : Running(col(k), m, u) /\ SumOf(col(k)) = u[m]]
           x == [j \in 0..m |-> SumOf([k \in 1..n |-> t[k][j]])]
<1>1. ASSUME NEW j \in 1..m, NEW k \in 1..n PROVE M[j][k] \in Int
  BY DEF Table
<1>2. ASSUME NEW k \in 1..n PROVE Running(col(k), m, t[k]) /\ SumOf(col(k)) = t[k][m]
  <2>1. col(k) \in [1..m -> Int]
    BY <1>1
  <2> HIDE DEF col
  <2>2. \E u : Running(col(k), m, u) /\ SumOf(col(k)) = u[m]
    BY <2>1, SumRuns
  <2> QED
    BY <2>2
<1>3. ASSUME NEW k \in 1..n
      PROVE  /\ \A j \in 0..m : t[k][j] \in Int
             /\ t[k][0] = 0
             /\ \A j \in 1..m : t[k][j] = t[k][j - 1] + M[j][k]
  <2>1. Running(col(k), m, t[k]) /\ \A j \in 1..m : col(k)[j] = M[j][k]
    BY <1>2
  <2> HIDE DEF col, t
  <2> QED
    BY <2>1 DEF Running
<1>4. SumOf([k \in 1..n |-> SumOf(col(k))]) = x[m]
  <2>1. [k \in 1..n |-> SumOf(col(k))] = [k \in 1..n |-> t[k][m]]
    BY <1>2
  <2>2. x[m] = SumOf([k \in 1..n |-> t[k][m]])
    OBVIOUS
  <2> QED
    BY <2>1, <2>2
<1> HIDE DEF t
<1>5. row \in [1..m -> Int]
  <2> SUFFICES ASSUME NEW j \in 1..m PROVE SumOf([k \in 1..n |-> M[j][k]]) \in Int
    OBVIOUS
  <2>1. [k \in 1..n |-> M[j][k]] \in [1..n -> Int]
    BY <1>1
  <2> QED
    BY <2>1, SumType
<1>6. Running(row, m, x)
  <2>1. x \in [0..m -> Int]
    <3> SUFFICES ASSUME NEW j \in 0..m PROVE SumOf([k \in 1..n |-> t[k][j]]) \in Int
      OBVIOUS
    <3>1. [k \in 1..n |-> t[k][j]] \in [1..n -> Int]
      BY <1>3
    <3> QED
      BY <3>1, SumType
  <2>2. x[0] = 0
    <3>1. [k \in 1..n |-> t[k][0]] \in [1..n -> Int] /\ \A k \in 1..n : [q \in 1..n |-> t[q][0]][k] = 0
      BY <1>3
    <3>2. SumOf([k \in 1..n |-> t[k][0]]) = 0
      BY <3>1, SumNone
    <3> QED
      BY <3>2
  <2>3. ASSUME NEW j \in 1..m PROVE x[j] = x[j - 1] + row[j]
    <3> DEFINE a == [k \in 1..n |-> t[k][j - 1]]
               b == [k \in 1..n |-> M[j][k]]
    <3>1. j \in 0..m /\ j - 1 \in 0..m
      OBVIOUS
    <3>2. a \in [1..n -> Int] /\ b \in [1..n -> Int]
      BY <1>1, <1>3, <3>1
    <3>3. [k \in 1..n |-> t[k][j]] = [k \in 1..n |-> a[k] + b[k]]
      BY <1>3
    <3>4. x[j] = SumOf([k \in 1..n |-> t[k][j]]) /\ x[j - 1] = SumOf(a) /\ row[j] = SumOf(b)
      BY <3>1
    <3> HIDE DEF a, b, x, row
    <3>5. SumOf([k \in 1..n |-> a[k] + b[k]]) = SumOf(a) + SumOf(b)
      BY <3>2, SumAdd
    <3> QED
      BY <3>3, <3>4, <3>5
  <2> HIDE DEF x, row
  <2> QED
    BY <2>1, <2>2, <2>3 DEF Running
<1> HIDE DEF x
<1>7. SumOf(row) = x[m]
  <2> HIDE DEF row
  <2> QED
    BY <1>5, <1>6, SumIs
<1> QED
  BY <1>4, <1>7 DEF ByRows, ByColumns

(* Two lists of numbers that match one to one, zeros aside.                *)
Matching(R, v, m, w, n) ==
  /\ m \in Nat /\ n \in Nat /\ v \in [1..m -> Int] /\ w \in [1..n -> Int]
  /\ \A j \in 1..m : v[j] # 0 => \E k \in 1..n : <<j, k>> \in R
  /\ \A k \in 1..n : w[k] # 0 => \E j \in 1..m : <<j, k>> \in R
  /\ \A j \in 1..m, k \in 1..n : <<j, k>> \in R => v[j] = w[k]
  /\ \A j \in 1..m, k, l \in 1..n : <<j, k>> \in R /\ <<j, l>> \in R => k = l
  /\ \A j, l \in 1..m, k \in 1..n : <<j, k>> \in R /\ <<l, k>> \in R => j = l

LEMMA SumMatch ==
  ASSUME NEW R, NEW v, NEW m, NEW w, NEW n, Matching(R, v, m, w, n)
  PROVE  SumOf(v) = SumOf(w)
<1>0. m \in Nat /\ n \in Nat /\ v \in [1..m -> Int] /\ w \in [1..n -> Int]
  BY DEF Matching
<1> USE <1>0
<1> DEFINE M == [j \in 1..m |-> [k \in 1..n |-> IF <<j, k>> \in R THEN v[j] ELSE 0]]
<1>1. M \in Table(m, n)
  BY DEF Table
<1>2. ASSUME NEW j \in 1..m PROVE SumOf([k \in 1..n |-> M[j][k]]) = v[j]
  <2> DEFINE r == [k \in 1..n |-> M[j][k]]
  <2>1. r \in [1..n -> Int] /\ \A k \in 1..n : r[k] = IF <<j, k>> \in R THEN v[j] ELSE 0
    OBVIOUS
  <2> HIDE DEF r, M
  <2>2. CASE \E k \in 1..n : <<j, k>> \in R
    <3>1. PICK k \in 1..n : <<j, k>> \in R
      BY <2>2
    <3>2. \A l \in 1..n : l # k => r[l] = 0
      BY <2>1, <3>1 DEF Matching
    <3>3. r \in [1..n -> Int] /\ r[k] = v[j]
      BY <2>1, <3>1
    <3>4. SumOf(r) = r[k]
      BY <3>2, <3>3, SumOne
    <3> QED
      BY <3>3, <3>4 DEF r
  <2>3. CASE ~\E k \in 1..n : <<j, k>> \in R
    <3>1. v[j] = 0 /\ \A k \in 1..n : r[k] = 0
      BY <2>1, <2>3 DEF Matching
    <3>2. SumOf(r) = 0
      BY <2>1, <3>1, SumNone
    <3> QED
      BY <3>1, <3>2 DEF r
  <2> QED
    BY <2>2, <2>3
<1>3. ASSUME NEW k \in 1..n PROVE SumOf([j \in 1..m |-> M[j][k]]) = w[k]
  <2> DEFINE r == [j \in 1..m |-> M[j][k]]
  <2>1. r \in [1..m -> Int] /\ \A j \in 1..m : r[j] = IF <<j, k>> \in R THEN v[j] ELSE 0
    OBVIOUS
  <2> HIDE DEF r, M
  <2>2. CASE \E j \in 1..m : <<j, k>> \in R
    <3>1. PICK j \in 1..m : <<j, k>> \in R
      BY <2>2
    <3>2. \A l \in 1..m : l # j => r[l] = 0
      BY <2>1, <3>1 DEF Matching
    <3>3. v[j] = w[k]
      BY <3>1 DEF Matching
    <3>4. r \in [1..m -> Int] /\ r[j] = v[j]
      BY <2>1, <3>1
    <3>5. SumOf(r) = r[j]
      BY <3>2, <3>4, SumOne
    <3> QED
      BY <3>3, <3>4, <3>5 DEF r
  <2>3. CASE ~\E j \in 1..m : <<j, k>> \in R
    <3>1. w[k] = 0 /\ \A j \in 1..m : r[j] = 0
      BY <2>1, <2>3 DEF Matching
    <3>2. SumOf(r) = 0
      BY <2>1, <3>1, SumNone
    <3> QED
      BY <3>1, <3>2 DEF r
  <2> QED
    BY <2>2, <2>3
<1> HIDE DEF M
<1>4. ByRows(M, m, n) = ByColumns(M, m, n)
  BY <1>1, SumSwap
<1>5. [j \in 1..m |-> SumOf([k \in 1..n |-> M[j][k]])] = v
  BY <1>2
<1>6. [k \in 1..n |-> SumOf([j \in 1..m |-> M[j][k]])] = w
  BY <1>3
<1> QED
  BY <1>4, <1>5, <1>6 DEF ByRows, ByColumns

(* Sorting: the element that comes k-th has k - 1 others before it.        *)
StrictOrder(S, R) == /\ \A x \in S : <<x, x>> \notin R
                     /\ \A x, y, z \in S : <<x, y>> \in R /\ <<y, z>> \in R => <<x, z>> \in R
                     /\ \A x, y \in S : x # y => <<x, y>> \in R \/ <<y, x>> \in R

InOrder(S, R, s) == /\ s \in [1..Cardinality(S) -> S]
                    /\ \A j, k \in 1..Cardinality(S) : s[j] = s[k] => j = k
                    /\ \A x \in S : \E k \in 1..Cardinality(S) : s[k] = x
                    /\ \A j, k \in 1..Cardinality(S) : j < k => <<s[j], s[k]>> \in R

LEMMA SortedFacts ==
  ASSUME NEW S, IsFiniteSet(S), NEW R, StrictOrder(S, R)
  PROVE  Cardinality(S) \in Nat /\ InOrder(S, R, Sorted(S, R))
<1> DEFINE B(x) == {y \in S : <<y, x>> \in R}
           n == Cardinality(S)
<1>1. n \in Nat
  BY FS_CardinalityType
<1>2. ASSUME NEW x \in S PROVE IsFiniteSet(B(x)) /\ Cardinality(B(x)) \in 0..(n - 1)
  <2>1. B(x) \in SUBSET S /\ B(x) # S
    <3>1. x \notin B(x)
      BY DEF StrictOrder
    <3> QED
      BY <3>1
  <2> HIDE DEF B
  <2>2. IsFiniteSet(B(x)) /\ Cardinality(B(x)) <= n /\ Cardinality(B(x)) # n
    BY <2>1, FS_Subset
  <2>3. Cardinality(B(x)) \in Nat
    BY <2>2, FS_CardinalityType
  <2> QED
    BY <1>1, <2>2, <2>3
<1>3. ASSUME NEW x \in S, NEW y \in S, <<x, y>> \in R PROVE Cardinality(B(x)) < Cardinality(B(y))
  <2>1. B(x) \in SUBSET B(y)
    <3> SUFFICES ASSUME NEW z \in S, <<z, x>> \in R PROVE <<z, y>> \in R
      OBVIOUS
    <3> QED
      BY <1>3 DEF StrictOrder
  <2>2. x \in B(y) /\ x \notin B(x)
    BY <1>3 DEF StrictOrder
  <2>3. IsFiniteSet(B(y)) /\ Cardinality(B(y)) \in Nat /\ Cardinality(B(x)) \in Nat
    BY <1>1, <1>2
  <2> HIDE DEF B
  <2>4. Cardinality(B(x)) <= Cardinality(B(y)) /\ Cardinality(B(x)) # Cardinality(B(y))
    BY <2>1, <2>2, <2>3, FS_Subset
  <2> QED
    BY <2>3, <2>4
<1> HIDE DEF B
<1>4. ASSUME NEW x \in S, NEW y \in S
      PROVE  /\ Cardinality(B(x)) < Cardinality(B(y)) => <<x, y>> \in R
             /\ Cardinality(B(x)) = Cardinality(B(y)) => x = y
  <2>1. Cardinality(B(x)) \in Int /\ Cardinality(B(y)) \in Int
    BY <1>1, <1>2
  <2>2. CASE <<x, y>> \in R
    <3>1. Cardinality(B(x)) < Cardinality(B(y))
      BY <1>3, <2>2
    <3> QED
      BY <2>1, <2>2, <3>1
  <2>3. CASE <<y, x>> \in R
    <3>1. Cardinality(B(y)) < Cardinality(B(x))
      BY <1>3, <2>3
    <3> QED
      BY <2>1, <3>1
  <2>4. CASE x = y
    BY <2>1, <2>4
  <2> QED
    BY <2>2, <2>3, <2>4 DEF StrictOrder
<1> DEFINE f == [x \in S |-> Cardinality(B(x))]
           Ranks == 0..(n - 1)
<1>5. f \in Injection(S, Ranks)
  <2>1. f \in [S -> Ranks]
    BY <1>2
  <2>2. \A x, y \in S : f[x] = f[y] => x = y
    BY <1>4
  <2> HIDE DEF f
  <2> QED
    BY <2>1, <2>2 DEF Injection, IsInjective
<1>6. IsFiniteSet(Ranks) /\ Cardinality(Ranks) = n
  <2>1. 0 \in Int /\ n - 1 \in Int
    BY <1>1
  <2>2. IsFiniteSet(Ranks) /\ Cardinality(Ranks) = IF 0 > n - 1 THEN 0 ELSE (n - 1) - 0 + 1
    BY <2>1, FS_Interval
  <2> HIDE DEF Ranks
  <2> QED
    BY <1>1, <2>2
<1>7. f \in Surjection(S, Ranks)
  <2> HIDE DEF f, Ranks, n
  <2> QED
    BY <1>5, <1>6, FS_Injection DEF n
<1>8. ASSUME NEW r \in Ranks PROVE \E x \in S : Cardinality(B(x)) = r
  <2>1. \E x \in S : f[x] = r
    <3> HIDE DEF f, Ranks
    <3> QED
      BY <1>7 DEF Surjection
  <2> QED
    BY <2>1
<1> HIDE DEF f
<1> DEFINE s == Sorted(S, R)
<1>9. ASSUME NEW k \in 1..n PROVE s[k] \in S /\ Cardinality(B(s[k])) = k - 1
  <2>1. k - 1 \in Ranks
    BY <1>1
  <2>2. \E x \in S : Cardinality(B(x)) = k - 1
    BY <1>8, <2>1
  <2>3. s[k] = CHOOSE x \in S : Cardinality(B(x)) = k - 1
    BY DEF Sorted, B
  <2> HIDE DEF s
  <2> QED
    BY <2>2, <2>3
<1>10. s \in [1..n -> S]
  <2> DEFINE place(k) == CHOOSE x \in S : Cardinality(B(x)) = k - 1
  <2>1. s = [k \in 1..n |-> place(k)]
    BY DEF Sorted, B
  <2> HIDE DEF place, s
  <2>2. \A k \in 1..n : place(k) \in S
    BY <1>9, <2>1
  <2> HIDE DEF n
  <2> QED
    BY <2>1, <2>2
<1> HIDE DEF s, n
<1>11. ASSUME NEW j \in 1..n, NEW k \in 1..n PROVE s[j] = s[k] => j = k
  <2>1. j - 1 = Cardinality(B(s[j])) /\ k - 1 = Cardinality(B(s[k]))
    BY <1>9
  <2>2. s[j] = s[k] => j - 1 = k - 1
    BY <2>1
  <2> QED
    BY <2>2
<1>12. ASSUME NEW j \in 1..n, NEW k \in 1..n, j < k PROVE <<s[j], s[k]>> \in R
  <2>1. s[j] \in S /\ s[k] \in S /\ j - 1 = Cardinality(B(s[j])) /\ k - 1 = Cardinality(B(s[k]))
    BY <1>9
  <2>2. j - 1 < k - 1
    BY <1>1, <1>12
  <2>3. Cardinality(B(s[j])) < Cardinality(B(s[k]))
    BY <2>1, <2>2
  <2> QED
    BY <1>4, <2>1, <2>3
<1>13. ASSUME NEW x \in S PROVE \E k \in 1..n : s[k] = x
  <2> DEFINE k == Cardinality(B(x)) + 1
  <2>1. k \in 1..n /\ k - 1 = Cardinality(B(x))
    BY <1>1, <1>2
  <2> HIDE DEF k
  <2>2. s[k] \in S /\ Cardinality(B(s[k])) = Cardinality(B(x))
    BY <1>9, <2>1
  <2> QED
    BY <1>4, <2>1, <2>2
<1>14. InOrder(S, R, s)
  BY <1>10, <1>11, <1>12, <1>13 DEF InOrder, n
<1> QED
  BY <1>1, <1>14 DEF s, n

LEMMA NthIsOnto ==
  ASSUME NEW S \in SUBSET Nat, IsFiniteSet(S)
  PROVE  \A x \in S : \E k \in 1..Cardinality(S) : Nth(S, k) = x
<1> SUFFICES ASSUME NEW x \in S PROVE \E k \in 1..Cardinality(S) : Nth(S, k) = x
  OBVIOUS
<1> DEFINE k == Rank(S, x) + 1
<1>1. Cardinality(S) \in Nat /\ Rank(S, x) \in 0..(Cardinality(S) - 1)
  BY RankFacts
<1>2. k \in 1..Cardinality(S) /\ k - 1 = Rank(S, x)
  BY <1>1
<1> HIDE DEF k
<1>3. Nth(S, k) = CHOOSE y \in S : Rank(S, y) = k - 1
  BY DEF Nth, Rank
<1>4. Nth(S, k) \in S /\ Rank(S, Nth(S, k)) = Rank(S, x)
  BY <1>2, <1>3
<1>5. ASSUME NEW y \in S, Rank(S, y) = Rank(S, x) PROVE y = x
  <2>1. x \in Nat /\ y \in Nat /\ Rank(S, x) \in Nat
    BY <1>1
  <2>2. /\ x < y <=> Rank(S, x) < Rank(S, y)
        /\ y < x <=> Rank(S, y) < Rank(S, x)
    BY RankFacts
  <2> QED
    BY <1>5, <2>1, <2>2
<1> QED
  BY <1>2, <1>4, <1>5

(* A sum grows by the last number.                                         *)
LEMMA SumStep ==
  ASSUME NEW n \in Nat, NEW v \in [1..(n + 1) -> Int]
  PROVE  SumOf(v) = SumOf([k \in 1..n |-> v[k]]) + v[n + 1]
<1> DEFINE w == [k \in 1..n |-> v[k]]
<1>1. w \in [1..n -> Int] /\ \A k \in 1..n : w[k] = v[k]
  OBVIOUS
<1> HIDE DEF w
<1>2. PICK t : Running(w, n, t) /\ SumOf(w) = t[n]
  BY <1>1, SumRuns
<1> DEFINE x == [k \in 0..(n + 1) |-> IF k = n + 1 THEN t[n] + v[n + 1] ELSE t[k]]
<1>3. n \in 0..n /\ n + 1 \in 1..(n + 1) /\ n + 1 \in Nat
  OBVIOUS
<1>4. t \in [0..n -> Int] /\ t[0] = 0 /\ \A k \in 1..n : t[k] = t[k - 1] + w[k]
  BY <1>2 DEF Running
<1>5. t[n] \in Int /\ v[n + 1] \in Int
  BY <1>3, <1>4
<1>6. Running(v, n + 1, x)
  <2>1. \A k \in 0..(n + 1) : k # n + 1 => k \in 0..n
    OBVIOUS
  <2>2. x \in [0..(n + 1) -> Int] /\ x[0] = 0
    BY <1>4, <1>5, <2>1
  <2>3. ASSUME NEW k \in 1..(n + 1) PROVE x[k] = x[k - 1] + v[k]
    <3>1. k \in 0..(n + 1) /\ k - 1 \in 0..(n + 1) /\ k - 1 # n + 1
      OBVIOUS
    <3>2. x[k] = (IF k = n + 1 THEN t[n] + v[n + 1] ELSE t[k]) /\ x[k - 1] = t[k - 1]
      BY <3>1
    <3> HIDE DEF x
    <3>3. CASE k = n + 1
      <4>1. k - 1 = n
        BY <3>3
      <4> QED
        BY <3>2, <3>3, <4>1
    <3>4. CASE k # n + 1
      <4>1. k \in 1..n
        BY <3>4
      <4> QED
        BY <1>1, <1>4, <3>2, <3>4, <4>1
    <3> QED
      BY <3>3, <3>4
  <2> HIDE DEF x
  <2> QED
    BY <2>2, <2>3 DEF Running
<1>7. x[n + 1] = t[n] + v[n + 1]
  BY <1>3
<1> HIDE DEF x
<1>8. SumOf(v) = x[n + 1]
  BY <1>3, <1>6, SumIs
<1> QED
  BY <1>2, <1>7, <1>8 DEF w

(* Counting is summing ones.                                               *)
LEMMA SumCount ==
  ASSUME NEW n \in Nat, NEW S \in SUBSET (1..n)
  PROVE  SumOf([k \in 1..n |-> IF k \in S THEN 1 ELSE 0]) = Cardinality(S)
<1> DEFINE v == [k \in 1..n |-> IF k \in S THEN 1 ELSE 0]
           U(q) == {k \in S : k <= q}
           x == [q \in 0..n |-> Cardinality(U(q))]
<1>1. v \in [1..n -> Int] /\ \A k \in 1..n : v[k] = IF k \in S THEN 1 ELSE 0
  OBVIOUS
<1>0. \A k \in S : k \in 1..n /\ k \in Int /\ 1 <= k /\ k <= n
  OBVIOUS
<1>2. ASSUME NEW q PROVE IsFiniteSet(U(q)) /\ Cardinality(U(q)) \in Nat
  <2>1. IsFiniteSet(1..n)
    BY FS_Interval
  <2>2. U(q) \in SUBSET (1..n)
    OBVIOUS
  <2> HIDE DEF U
  <2> QED
    BY <2>1, <2>2, FS_Subset, FS_CardinalityType
<1>3. x \in [0..n -> Int]
  BY <1>2
<1>4. x[0] = 0
  <2>1. U(0) = {}
    <3>1. \A k \in S : ~(k <= 0)
      BY <1>0
    <3> QED
      BY <3>1, Zenon
  <2>2. x[0] = Cardinality(U(0))
    OBVIOUS
  <2> HIDE DEF U, x
  <2> QED
    BY <2>1, <2>2, FS_EmptySet
<1>5. ASSUME NEW k \in 1..n PROVE x[k] = x[k - 1] + v[k]
  <2>1. x[k] = Cardinality(U(k)) /\ x[k - 1] = Cardinality(U(k - 1))
    OBVIOUS
  <2>2. U(k) = IF k \in S THEN U(k - 1) \cup {k} ELSE U(k - 1)
    <3>1. \A q \in S : q <= k <=> q <= k - 1 \/ q = k
      BY <1>0
    <3> QED
      BY <3>1, Zenon
  <2>3. k \notin U(k - 1)
    OBVIOUS
  <2> HIDE DEF U, x, v
  <2>4. IsFiniteSet(U(k - 1)) /\ Cardinality(U(k - 1)) \in Nat
    BY <1>2
  <2>5. Cardinality(U(k - 1) \cup {k}) = Cardinality(U(k - 1)) + 1
    BY <2>3, <2>4, FS_AddElement
  <2> QED
    BY <1>1, <2>1, <2>2, <2>4, <2>5
<1>6. x[n] = Cardinality(S)
  <2>1. x[n] = Cardinality(U(n))
    OBVIOUS
  <2>2. U(n) = S
    BY <1>0, Zenon
  <2> QED
    BY <2>1, <2>2
<1> HIDE DEF v, x, U
<1>7. Running(v, n, x)
  BY <1>3, <1>4, <1>5 DEF Running
<1>8. SumOf(v) = x[n]
  BY <1>1, <1>7, SumIs
<1> QED
  BY <1>6, <1>8 DEF v

LEMMA DisjointCount ==
  ASSUME NEW S, NEW T, IsFiniteSet(S), IsFiniteSet(T), S \cap T = {}
  PROVE  /\ IsFiniteSet(S \cup T)
         /\ Cardinality(S \cup T) = Cardinality(S) + Cardinality(T)
         /\ Cardinality(S) \in Nat /\ Cardinality(T) \in Nat
<1>1. Cardinality({}) = 0 /\ Cardinality(S) \in Nat /\ Cardinality(T) \in Nat
  BY FS_EmptySet, FS_CardinalityType
<1>2. IsFiniteSet(S \cup T) /\ Cardinality(S \cup T) = Cardinality(S) + Cardinality(T) - Cardinality(S \cap T)
  BY FS_Union
<1>3. Cardinality(S \cap T) = 0
  BY <1>1
<1> QED
  BY <1>1, <1>2, <1>3

(* As many things as others they match one to one.                         *)
OneToOne(S, T, f) == /\ f \in [S -> T]
                     /\ \A j, k \in S : f[j] = f[k] => j = k
                     /\ \A x \in T : \E k \in S : f[k] = x

LEMMA SameCount ==
  ASSUME NEW S, NEW T, NEW f, OneToOne(S, T, f), IsFiniteSet(S)
  PROVE  Cardinality(T) = Cardinality(S)
<1>1. f \in Bijection(S, T)
  BY DEF OneToOne, Bijection, Injection, Surjection, IsInjective
<1> QED
  BY <1>1, FS_Bijection DEF ExistsBijection

(* Counting up to n reaches all that each round hands on to the next.      *)
LEMMA Induction ==
  ASSUME NEW n \in Nat, NEW D, 0 \in D, \A k \in 1..n : k - 1 \in D => k \in D
  PROVE  \A k \in 0..n : k \in D
<1> DEFINE Bad == {k \in 0..n : k \notin D}
<1> SUFFICES ASSUME Bad # {} PROVE FALSE
  OBVIOUS
<1>1. Bad \in SUBSET Nat
  OBVIOUS
<1>2. PICK m \in Bad : \A q \in Bad : m <= q
  <2> HIDE DEF Bad
  <2> QED
    BY <1>1, LeastElement
<1>3. m \in 1..n /\ m - 1 \in 0..n /\ ~(m <= m - 1)
  BY <1>2
<1>4. m - 1 \in D
  BY <1>2, <1>3
<1> QED
  BY <1>2, <1>3, <1>4

(* A loop whose k-th round leads from a state in Good[k - 1] to Good[k].   *)
StaysIn(Good, start, n, F) == start \in Good[0] /\ \A k \in 1..n : \A x \in Good[k - 1] : F[k][x] \in Good[k]

LEMMA Loop ==
  ASSUME NEW n \in Nat, NEW start, NEW F, NEW Good, StaysIn(Good, start, n, F)
  PROVE  \E g : /\ DOMAIN g = 0..n /\ g = [k \in 0..n |-> g[k]]
                /\ Follows(g, start, n, F)
                /\ \A k \in 0..n : g[k] \in Good[k]
<1> DEFINE S == UNION {Good[k] : k \in 0..n}
           H == [k \in 1..n |-> [x \in S |-> IF x \in Good[k - 1] THEN F[k][x] ELSE start]]
<1>1. start \in S
  <2>1. 0 \in 0..n
    OBVIOUS
  <2> QED
    BY <2>1 DEF StaysIn
<1>2. Within(H, n, S)
  <2> SUFFICES ASSUME NEW k \in 1..n, NEW x \in S PROVE H[k][x] \in S
    BY DEF Within
  <2>1. k \in 0..n /\ H[k][x] = IF x \in Good[k - 1] THEN F[k][x] ELSE start
    OBVIOUS
  <2>2. x \in Good[k - 1] => F[k][x] \in Good[k]
    BY DEF StaysIn
  <2> QED
    BY <1>1, <2>1, <2>2
<1> HIDE DEF H
<1>3. PICK g \in [0..n -> S] : Follows(g, start, n, H)
  <2> HIDE DEF S
  <2> QED
    BY <1>1, <1>2, Recursion
<1> DEFINE D == {k \in 0..n : g[k] \in Good[k]}
<1>4. 0 \in D
  BY <1>3 DEF Follows, StaysIn
<1>5. ASSUME NEW k \in 1..n, k - 1 \in D PROVE g[k] = F[k][g[k - 1]] /\ k \in D
  <2>0. k \in 0..n /\ k - 1 \in 0..n
    OBVIOUS
  <2>1. g[k - 1] \in Good[k - 1] /\ g[k - 1] \in S /\ k \in 0..n
    BY <1>3, <1>5, <2>0
  <2>2. g[k] = H[k][g[k - 1]]
    BY <1>3 DEF Follows
  <2>3. g[k] = F[k][g[k - 1]]
    BY <2>1, <2>2 DEF H
  <2>4. F[k][g[k - 1]] \in Good[k]
    BY <2>1 DEF StaysIn
  <2> QED
    BY <2>1, <2>3, <2>4
<1>6. \A k \in 0..n : k \in D
  <2> HIDE DEF D
  <2> QED
    BY <1>4, <1>5, Induction
<1>7. ASSUME NEW k \in 1..n PROVE g[k] = F[k][g[k - 1]]
  <2>1. k - 1 \in 0..n
    OBVIOUS
  <2> QED
    BY <1>5, <1>6, <2>1
<1>8. Follows(g, start, n, F)
  BY <1>3, <1>7 DEF Follows
<1> QED
  BY <1>3, <1>6, <1>8

(* The chosen items keep their order.                                      *)
LEMMA NthGrows ==
  ASSUME NEW S \in SUBSET Nat, IsFiniteSet(S),
         NEW j \in 1..Cardinality(S), NEW k \in 1..Cardinality(S), j < k
  PROVE  Nth(S, j) < Nth(S, k)
<1>1. Cardinality(S) \in Nat /\ Nth(S, j) \in S /\ Nth(S, k) \in S /\ Nth(S, j) # Nth(S, k)
  BY NthFacts
<1>2. ASSUME NEW i \in 1..Cardinality(S) PROVE Rank(S, Nth(S, i)) = i - 1
  <2>1. i - 1 \in 0..(Cardinality(S) - 1)
    BY <1>1
  <2>2. \E x \in S : Cardinality({y \in S : y < x}) = i - 1
    <3>1. \E x \in S : Rank(S, x) = i - 1
      BY <2>1, RankFacts
    <3> QED
      BY <3>1 DEF Rank
  <2> QED
    BY <2>2 DEF Nth, Rank
<1>3. Rank(S, Nth(S, j)) = j - 1 /\ Rank(S, Nth(S, k)) = k - 1
  BY <1>2
<1>4. Rank(S, Nth(S, j)) < Rank(S, Nth(S, k))
  BY <1>1, <1>3
<1> QED
  BY <1>1, <1>4, RankFacts

LEMMA Positions ==
  ASSUME NEW n \in Nat, NEW kept \in SUBSET (1..n)
  PROVE  /\ kept \in SUBSET Nat /\ IsFiniteSet(kept)
         /\ Cardinality(kept) \in Nat /\ Cardinality(kept) <= n
<1>1. IsFiniteSet(1..n) /\ Cardinality(1..n) = n
  <2>1. 1 \in Int /\ n \in Int
    OBVIOUS
  <2>2. IsFiniteSet(1..n) /\ Cardinality(1..n) = IF 1 > n THEN 0 ELSE n - 1 + 1
    BY <2>1, FS_Interval
  <2> QED
    BY <2>2
<1>2. IsFiniteSet(kept) /\ Cardinality(kept) <= Cardinality(1..n)
  BY <1>1, FS_Subset
<1>3. Cardinality(kept) \in Nat
  BY <1>2, FS_CardinalityType
<1> QED
  BY <1>1, <1>2, <1>3

(* Where the items chosen come from, and that none of them is missing.     *)
ChosenWell(X, s, kept, t) ==
  /\ t \in Seq(X) /\ Len(t) = Cardinality(kept) /\ Len(t) \in Nat /\ DOMAIN t = 1..Len(t)
  /\ \A k \in 1..Len(t) : t[k] = s[Nth(kept, k)] /\ Nth(kept, k) \in kept
  /\ \A j, k \in 1..Len(t) : j < k => Nth(kept, j) < Nth(kept, k)
  /\ \A x \in kept : \E k \in 1..Len(t) : Nth(kept, k) = x

LEMMA ChosenFacts ==
  ASSUME NEW X, NEW s \in Seq(X), NEW kept \in SUBSET DOMAIN s
  PROVE  ChosenWell(X, s, kept, Chosen(s, kept)) /\ Len(Chosen(s, kept)) <= Len(s)
<1> DEFINE n == Cardinality(kept)
           t == Chosen(s, kept)
<1>1. DOMAIN s = 1..Len(s) /\ Len(s) \in Nat
  BY LenProperties
<1>2. kept \in SUBSET Nat /\ IsFiniteSet(kept) /\ n \in Nat /\ n <= Len(s)
  BY <1>1, Positions
<1>3. \A k \in 1..n : Nth(kept, k) \in kept
  BY <1>2, NthFacts
<1>4. \A k \in 1..n : s[Nth(kept, k)] \in X
  BY <1>3, <1>1, ElementOfSeq
<1>5. t = [k \in 1..n |-> s[Nth(kept, k)]]
  BY DEF Chosen
<1> HIDE DEF t, n
<1>6. DOMAIN t = 1..n /\ (\A k \in 1..n : t[k] \in X) /\ t = [k \in 1..n |-> t[k]]
  BY <1>4, <1>5
<1>7. t \in Seq(X) /\ Len(t) = n
  BY <1>2, <1>6, LenOf
<1>8. \A j, k \in 1..n : j < k => Nth(kept, j) < Nth(kept, k)
  BY <1>2, NthGrows DEF n
<1>9. \A x \in kept : \E k \in 1..n : Nth(kept, k) = x
  BY <1>2, NthIsOnto DEF n
<1>10. \A k \in 1..n : t[k] = s[Nth(kept, k)]
  BY <1>5
<1>11. ChosenWell(X, s, kept, t)
  BY <1>2, <1>3, <1>6, <1>7, <1>8, <1>9, <1>10 DEF ChosenWell, n
<1> QED
  BY <1>2, <1>7, <1>11 DEF t, n

(* Joining: t[k] is the first k lists in one.                              *)
Joining(X, v, n, t) == /\ t \in [0..n -> Seq(X)]
                       /\ t[0] = <<>>
                       /\ \A k \in 1..n : t[k] = t[k - 1] \o v[k]

LEMMA FlatRuns ==
  ASSUME NEW X, NEW n \in Nat, NEW v \in [1..n -> Seq(X)]
  PROVE  \E t : Joining(X, v, n, t) /\ Flat(v) = t[n]
<1> DEFINE F == [k \in 1..n |-> [x \in Seq(X) |-> x \o v[k]]]
           up == CHOOSE up : up = [m \in 0..n |-> IF m = 0 THEN <<>> ELSE up[m - 1] \o v[m]]
<1>1. Len(v) = n
  <2>1. DOMAIN v = 1..n /\ (\A k \in 1..n : v[k] \in Seq(X)) /\ v = [k \in 1..n |-> v[k]]
    OBVIOUS
  <2> QED
    BY <2>1, LenOf
<1>2. Flat(v) = up[n]
  BY <1>1 DEF Flat
<1>3. Within(F, n, Seq(X))
  <2> SUFFICES ASSUME NEW k \in 1..n, NEW x \in Seq(X) PROVE F[k][x] \in Seq(X)
    BY DEF Within
  <2>1. F[k][x] = x \o v[k] /\ v[k] \in Seq(X)
    OBVIOUS
  <2> HIDE DEF F
  <2> QED
    BY <2>1, ConcatProperties
<1>4. PICK g \in [0..n -> Seq(X)] : Follows(g, <<>>, n, F)
  <2>1. <<>> \in Seq(X)
    OBVIOUS
  <2> HIDE DEF F
  <2> QED
    BY <1>3, <2>1, Recursion
<1>5. g = [m \in 0..n |-> IF m = 0 THEN <<>> ELSE g[m - 1] \o v[m]]
  <2>1. ASSUME NEW m \in 0..n PROVE g[m] = IF m = 0 THEN <<>> ELSE g[m - 1] \o v[m]
    <3>1. CASE m = 0
      BY <1>4, <3>1 DEF Follows
    <3>2. CASE m # 0
      <4>1. m \in 1..n /\ m - 1 \in 0..n
        BY <3>2
      <4>2. g[m] = F[m][g[m - 1]] /\ g[m - 1] \in Seq(X)
        BY <1>4, <4>1 DEF Follows
      <4> QED
        BY <3>2, <4>1, <4>2
    <3> QED
      BY <3>1, <3>2
  <2> QED
    BY <2>1
<1>6. up = [m \in 0..n |-> IF m = 0 THEN <<>> ELSE up[m - 1] \o v[m]]
  BY <1>5
<1> HIDE DEF up, F
<1>7. up[0] = <<>> /\ \A m \in 1..n : up[m] = up[m - 1] \o v[m]
  <2>1. 0 \in 0..n /\ \A m \in 1..n : m \in 0..n /\ m # 0
    OBVIOUS
  <2> QED
    BY <1>6, <2>1
<1> DEFINE D == {m \in 0..n : up[m] \in Seq(X)}
<1>8. 0 \in D
  <2>1. 0 \in 0..n /\ <<>> \in Seq(X)
    OBVIOUS
  <2> QED
    BY <1>7, <2>1, Zenon
<1>9. ASSUME NEW m \in 1..n, m - 1 \in D PROVE m \in D
  <2>1. up[m - 1] \in Seq(X) /\ v[m] \in Seq(X) /\ up[m] = up[m - 1] \o v[m]
    BY <1>7, <1>9
  <2>2. up[m] \in Seq(X)
    BY <2>1, ConcatProperties
  <2> QED
    BY <2>2
<1>10. \A m \in 0..n : m \in D
  <2> HIDE DEF D
  <2> QED
    BY <1>8, <1>9, Induction
<1>11. up \in [0..n -> Seq(X)]
  BY <1>6, <1>10
<1> QED
  BY <1>2, <1>7, <1>11 DEF Joining

LEMMA JoiningIsOne ==
  ASSUME NEW X, NEW n \in Nat, NEW v, NEW t, NEW u, Joining(X, v, n, t), Joining(X, v, n, u)
  PROVE  t[n] = u[n]
<1> DEFINE D == {m \in 0..n : t[m] = u[m]}
<1>1. 0 \in D
  BY DEF Joining
<1>2. ASSUME NEW m \in 1..n, m - 1 \in D PROVE m \in D
  <2>1. m \in 0..n
    OBVIOUS
  <2>2. t[m] = t[m - 1] \o v[m] /\ u[m] = u[m - 1] \o v[m]
    BY Zenon DEF Joining
  <2>3. t[m - 1] = u[m - 1]
    BY <1>2
  <2> QED
    BY <2>1, <2>2, <2>3, Zenon
<1>3. \A m \in 0..n : m \in D
  <2> HIDE DEF D
  <2> QED
    BY <1>1, <1>2, Induction
<1> QED
  BY <1>3

(* The first m of some lists.                                              *)
First(v, m) == [k \in 1..m |-> v[k]]

Begins(X, p, s) == \E rest \in Seq(X) : s = p \o rest

(* Joined lists are the first ones joined, the next one and a rest.        *)
LEMMA FlatSplit ==
  ASSUME NEW X, NEW n \in Nat, NEW v \in [1..n -> Seq(X)], NEW m \in 0..(n - 1)
  PROVE  /\ Flat(First(v, m)) \in Seq(X)
         /\ Flat(First(v, m + 1)) = Flat(First(v, m)) \o v[m + 1]
         /\ Begins(X, Flat(First(v, m + 1)), Flat(v))
<1>1. PICK t : Joining(X, v, n, t) /\ Flat(v) = t[n]
  BY FlatRuns
<1>2. ASSUME NEW q \in 0..n PROVE Flat(First(v, q)) = t[q]
  <2> DEFINE w == First(v, q)
             s == [k \in 0..q |-> t[k]]
  <2>1. w \in [1..q -> Seq(X)] /\ q \in Nat
    BY DEF First
  <2>2. Joining(X, w, q, s)
    <3>1. s \in [0..q -> Seq(X)] /\ s[0] = <<>>
      <4>1. t[0] = <<>> /\ \A k \in 0..n : t[k] \in Seq(X)
        BY <1>1, Zenon DEF Joining
      <4>2. 0 \in 0..q /\ \A k \in 0..q : k \in 0..n
        OBVIOUS
      <4> QED
        BY <4>1, <4>2
    <3>2. ASSUME NEW k \in 1..q PROVE s[k] = s[k - 1] \o w[k]
      <4>1. k \in 1..n /\ k \in 0..q /\ k - 1 \in 0..q /\ w[k] = v[k]
        BY DEF First
      <4>2. t[k] = t[k - 1] \o v[k]
        BY <1>1, <4>1, Zenon DEF Joining
      <4>3. s[k] = t[k] /\ s[k - 1] = t[k - 1]
        BY <4>1
      <4> QED
        BY <4>1, <4>2, <4>3, Zenon
    <3> HIDE DEF s
    <3> QED
      BY <3>1, <3>2 DEF Joining
  <2>3. PICK u : Joining(X, w, q, u) /\ Flat(w) = u[q]
    <3> HIDE DEF w
    <3> QED
      BY <2>1, FlatRuns
  <2>4. s[q] = t[q]
    BY <2>1
  <2> HIDE DEF s, w
  <2>5. u[q] = s[q]
    BY <2>1, <2>2, <2>3, JoiningIsOne
  <2> QED
    BY <2>3, <2>4, <2>5 DEF w
<1>3. m \in 0..n /\ m + 1 \in 1..n /\ m + 1 \in 0..n /\ m + 1 - 1 = m
  OBVIOUS
<1>4. t[m + 1] = t[m] \o v[m + 1] /\ \A k \in 0..n : t[k] \in Seq(X)
  <2>0. \A k \in 1..n : t[k] = t[k - 1] \o v[k]
    BY <1>1, Zenon DEF Joining
  <2>1. t[m + 1] = t[m] \o v[m + 1]
    <3> DEFINE j == m + 1
    <3>1. j \in 1..n /\ j - 1 = m
      BY <1>3
    <3> HIDE DEF j
    <3>2. t[j] = t[j - 1] \o v[j]
      BY <2>0, <3>1, Zenon
    <3> QED
      BY <3>1, <3>2, Zenon DEF j
  <2>2. \A k \in 0..n : t[k] \in Seq(X)
    BY <1>1, Zenon DEF Joining
  <2> QED
    BY <1>3, <2>1, <2>2, Zenon
<1> DEFINE D == {k \in 0..n : k <= m \/ Begins(X, t[m + 1], t[k])}
<1>5. 0 \in D
  OBVIOUS
<1>6. ASSUME NEW k \in 1..n, k - 1 \in D PROVE k \in D
  <2>0. k \in 0..n /\ k - 1 \in 0..n /\ t[m + 1] \in Seq(X)
    BY <1>3, <1>4
  <2>1. CASE k <= m
    BY <2>0, <2>1
  <2>2. CASE k = m + 1
    <3>1. <<>> \in Seq(X)
      OBVIOUS
    <3>2. t[k] = t[m + 1] \o <<>>
      BY <2>0, <2>2, ConcatEmptySeq
    <3> QED
      BY <2>0, <3>1, <3>2, Zenon DEF Begins
  <2>3. CASE k > m + 1
    <3>1. ~(k - 1 <= m)
      BY <2>3
    <3>2. v[k] \in Seq(X) /\ t[k] = t[k - 1] \o v[k]
      BY <1>1, Zenon DEF Joining
    <3>3. PICK rest \in Seq(X) : t[k - 1] = t[m + 1] \o rest
      BY <1>6, <3>1 DEF Begins
    <3>4. rest \o v[k] \in Seq(X)
      BY <3>2, ConcatProperties
    <3>5. (t[m + 1] \o rest) \o v[k] = t[m + 1] \o (rest \o v[k])
      <4> DEFINE a == t[m + 1]
                 b == v[k]
      <4>1. a \in Seq(X) /\ b \in Seq(X)
        BY <2>0, <3>2
      <4> HIDE DEF a, b
      <4>2. (a \o rest) \o b = a \o (rest \o b)
        BY <4>1, ConcatAssociative
      <4> QED
        BY <4>2, Zenon DEF a, b
    <3>6. t[k] = t[m + 1] \o (rest \o v[k])
      BY <3>2, <3>3, <3>5, Zenon
    <3> QED
      BY <2>0, <3>4, <3>6, Zenon DEF Begins
  <2> QED
    BY <2>1, <2>2, <2>3
<1>7. \A k \in 0..n : k \in D
  <2> HIDE DEF D
  <2> QED
    BY <1>5, <1>6, Induction
<1>8. Begins(X, t[m + 1], t[n])
  <2>1. n \in 0..n /\ ~(n <= m)
    BY <1>3
  <2> QED
    BY <1>7, <2>1
<1> QED
  BY <1>1, <1>2, <1>3, <1>4, <1>8, Zenon

LEMMA FlatType ==
  ASSUME NEW X, NEW n \in Nat, NEW v \in [1..n -> Seq(X)]
  PROVE  Flat(v) \in Seq(X) /\ (n = 0 => Flat(v) = <<>>)
<1>1. PICK t : Joining(X, v, n, t) /\ Flat(v) = t[n]
  BY FlatRuns
<1> QED
  BY <1>1 DEF Joining

(* What a finite set is mapped onto is finite.                             *)
LEMMA FiniteImage ==
  ASSUME NEW S, IsFiniteSet(S), NEW T, NEW f \in [S -> T], \A y \in T : \E x \in S : f[x] = y
  PROVE  IsFiniteSet(T)
<1>1. f \in Surjection(S, T)
  BY DEF Surjection
<1> QED
  BY <1>1, FS_Surjection
-----------------------------------------------------------------------------
(* Brackets make no difference to what is joined.                          *)
EitherWay(r, s, t) == (r \o s) \o t = r \o (s \o t)

LEMMA Rebracketed ==
  ASSUME NEW X, NEW r \in Seq(X), NEW s \in Seq(X), NEW t \in Seq(X)
  PROVE  EitherWay(r, s, t)
BY ConcatAssociative DEF EitherWay

InFour(h, s, a, b, rest) == ((h \o s) \o a) \o (b \o rest) = h \o ((s \o (a \o b)) \o rest)

LEMMA Regrouped ==
  ASSUME NEW X, NEW h \in Seq(X), NEW s \in Seq(X), NEW a \in Seq(X), NEW b \in Seq(X), NEW rest \in Seq(X)
  PROVE  InFour(h, s, a, b, rest)
<1>1. h \o s \in Seq(X) /\ a \o b \in Seq(X) /\ b \o rest \in Seq(X) /\ a \o (b \o rest) \in Seq(X)
  BY ConcatProperties
<1>2. EitherWay(h, s, a \o (b \o rest)) /\ EitherWay(a, b, rest)
  BY <1>1, Rebracketed
<1>3. EitherWay(h \o s, a, b \o rest) /\ EitherWay(s, a \o b, rest)
  BY <1>1, Rebracketed
<1> QED
  BY <1>2, <1>3, Zenon DEF EitherWay, InFour

(* Lists joined one by one: after the first m of them, the next, a \o b.   *)
JoinedSoFar(h, v, m) == h \o Flat(First(v, m))
Halves(v, m, a, b) == v[m + 1] = a \o b
NextIs(h, v, m, a, b) == JoinedSoFar(h, v, m + 1) = JoinedSoFar(h, v, m) \o (a \o b)
RestIs(X, h, v, m, a, b) == \E rest \in Seq(X) : h \o Flat(v) = (JoinedSoFar(h, v, m) \o a) \o (b \o rest)

LEMMA NextJoined ==
  ASSUME NEW X, NEW n \in Nat, NEW v \in [1..n -> Seq(X)], NEW h \in Seq(X), NEW m \in 0..(n - 1),
         NEW a \in Seq(X), NEW b \in Seq(X), Halves(v, m, a, b)
  PROVE  JoinedSoFar(h, v, m) \in Seq(X) /\ NextIs(h, v, m, a, b) /\ RestIs(X, h, v, m, a, b)
<1> DEFINE s == Flat(First(v, m))
           t == Flat(First(v, m + 1))
           w == Flat(v)
           e == v[m + 1]
<1>1. s \in Seq(X) /\ t = s \o e /\ Begins(X, t, w)
  BY FlatSplit
<1>2. e = a \o b /\ e \in Seq(X)
  BY DEF Halves
<1> HIDE DEF s, t, w, e
<1>3. PICK rest \in Seq(X) : w = t \o rest
  BY <1>1 DEF Begins
<1>4. h \o s \in Seq(X) /\ b \o rest \in Seq(X) /\ EitherWay(h, s, e)
  <2>1. h \o s \in Seq(X) /\ b \o rest \in Seq(X)
    BY <1>1, ConcatProperties
  <2>2. EitherWay(h, s, e)
    BY <1>1, <1>2, Rebracketed
  <2> QED
    BY <2>1, <2>2
<1>5. h \o t = (h \o s) \o (a \o b)
  BY <1>1, <1>2, <1>4, Zenon DEF EitherWay
<1>6. h \o w = ((h \o s) \o a) \o (b \o rest)
  <2>1. InFour(h, s, a, b, rest)
    BY <1>1, Regrouped
  <2> QED
    BY <1>1, <1>2, <1>3, <2>1, Zenon DEF InFour
<1>7. JoinedSoFar(h, v, m) = h \o s /\ JoinedSoFar(h, v, m + 1) = h \o t
  BY Zenon DEF JoinedSoFar, s, t
<1>8. NextIs(h, v, m, a, b)
  BY <1>5, <1>7, Zenon DEF NextIs
<1>9. RestIs(X, h, v, m, a, b)
  BY <1>6, <1>7, Zenon DEF RestIs, w
<1> QED
  BY <1>4, <1>7, <1>8, <1>9, Zenon

(* A rest that does not begin with nothing is something.                   *)
LEMMA SomeMore ==
  ASSUME NEW X, NEW a \in Seq(X), NEW b \in Seq(X), a # <<>> PROVE a \o b \in Seq(X) /\ a \o b # <<>> /\ b \o a # <<>>
BY ConcatProperties, ConcatEqualIffEmpty

LEMMA FlatFew ==
  ASSUME NEW X, NEW a \in Seq(X), NEW b \in Seq(X)
  PROVE  Flat(<<a>>) = a /\ Flat(<<a, b>>) = a \o b
<1>1. ASSUME NEW n \in Nat, NEW v \in [1..n -> Seq(X)], n > 0 PROVE Flat(First(v, 1)) = v[1]
  <2>1. 0 \in 0..(n - 1) /\ First(v, 0) \in [1..0 -> Seq(X)]
    BY <1>1 DEF First
  <2>2. Flat(First(v, 0)) = <<>>
    BY <2>1, FlatType
  <2> DEFINE m == 0
  <2>3. Flat(First(v, m + 1)) = Flat(First(v, m)) \o v[m + 1]
    BY <2>1, FlatSplit
  <2>4. Flat(First(v, 1)) = <<>> \o v[1] /\ v[1] \in Seq(X)
    BY <1>1, <2>2, <2>3
  <2> QED
    BY <2>4, ConcatEmptySeq
<1>2. Flat(<<a>>) = a
  <2> DEFINE v == <<a>>
  <2>1. v \in [1..1 -> Seq(X)] /\ v[1] = a /\ First(v, 1) = v
    BY DEF First
  <2> DEFINE n == 1
  <2>2. n \in Nat /\ n > 0 /\ v \in [1..n -> Seq(X)]
    BY <2>1
  <2> HIDE DEF v, n
  <2>3. Flat(First(v, 1)) = v[1]
    BY <1>1, <2>2
  <2> QED
    BY <2>1, <2>3 DEF v
<1>3. Flat(<<a, b>>) = a \o b
  <2> DEFINE v == <<a, b>>
           n == 2
           m == 1
  <2>1. v \in [1..n -> Seq(X)] /\ v[1] = a /\ v[m + 1] = b /\ First(v, m + 1) = v /\ n \in Nat /\ n > 0 /\ m \in 0..(n - 1)
    BY DEF First
  <2>2. Flat(First(v, m)) = a
    <3> HIDE DEF v, n
    <3> QED
      BY <1>1, <2>1
  <2> HIDE DEF v, n, m
  <2>3. Flat(First(v, m + 1)) = Flat(First(v, m)) \o v[m + 1]
    BY <2>1, FlatSplit
  <2>4. Flat(v) = a \o b
    BY <2>1, <2>2, <2>3
  <2> QED
    BY <2>4 DEF v
<1> QED
  BY <1>2, <1>3

(* What is joined to a list leaves it in front.                            *)
LEMMA StaysInFront ==
  ASSUME NEW X, NEW s \in Seq(X), NEW rest \in Seq(X)
  PROVE  Len(s) <= Len(s \o rest) /\ SubSeq(s, 1, Len(s)) = SubSeq(s \o rest, 1, Len(s))
<1> DEFINE t == s \o rest
<1>1. /\ t \in Seq(X) /\ Len(t) = Len(s) + Len(rest) /\ Len(s) \in Nat /\ Len(rest) \in Nat
      /\ \A k \in 1..Len(s) : t[k] = s[k]
  <2>1. Len(s) \in Nat /\ Len(rest) \in Nat
    BY LenProperties
  <2> QED
    BY <2>1, ConcatProperties
<1> HIDE DEF t
<1>2. SubSeq(t, 1, Len(s)) = SubSeq(s, 1, Len(s))
  <2>1. \A k \in 1..Len(s) : s[k] \in X /\ t[k] \in X
    BY <1>1, ElementOfSeq
  <2> DEFINE n == Len(s)
             p == SubSeq(t, 1, n)
             q == SubSeq(s, 1, n)
  <2>2. n \in Nat /\ n - 1 + 1 = n /\ 1 \in Int /\ n \in Int
    BY <1>1
  <2>3. p \in Seq(X) /\ q \in Seq(X) /\ Len(p) = n /\ Len(q) = n /\ \A k \in 1..n : p[k] = t[k] /\ q[k] = s[k]
    <3>1. \A k \in 1..n : s[k] \in X /\ t[k] \in X
      BY <2>1
    <3> HIDE DEF n
    <3>2. /\ p \in Seq(X) /\ (Len(p) = IF 1 <= n THEN n - 1 + 1 ELSE 0) /\ \A i \in 1..(n - 1 + 1) : p[i] = t[1 + i - 1]
      BY <2>2, <3>1, SubSeqProperties
    <3>3. /\ q \in Seq(X) /\ (Len(q) = IF 1 <= n THEN n - 1 + 1 ELSE 0) /\ \A i \in 1..(n - 1 + 1) : q[i] = s[1 + i - 1]
      BY <2>2, <3>1, SubSeqProperties
    <3> HIDE DEF p, q
    <3>4. \A i \in 1..n : 1 + i - 1 = i
      BY <2>2
    <3> QED
      BY <2>2, <3>2, <3>3, <3>4
  <2> HIDE DEF p, q
  <2>4. p = q
    BY <1>1, <2>3, SeqEqual
  <2> QED
    BY <2>4 DEF p, q
<1> QED
  BY <1>1, <1>2 DEF t

(* What the functions of the packages listed have, and the rest.           *)
Shared(pkg, v, n, p) == SumOf([k \in 1..n |-> IF pkg[k] = p THEN v[k] ELSE 0])
Unlisted(pkg, v, n, q, m) == SumOf([k \in 1..n |-> IF \E j \in 1..m : q[j] = pkg[k] THEN 0 ELSE v[k]])

OnceOnly(m, w, D, x) ==
  /\ w \in [1..m -> Int] /\ D \in SUBSET (1..m) /\ (\A i, j \in D : i = j)
  /\ \A j \in 1..m : w[j] = IF j \in D THEN x ELSE 0
LEMMA SumAtMost ==
  ASSUME NEW m \in Nat, NEW w, NEW D, NEW x, OnceOnly(m, w, D, x)
  PROVE  SumOf(w) = IF D = {} THEN 0 ELSE x
<1> USE DEF OnceOnly
<1>1. CASE D = {}
  BY <1>1, SumNone
<1>2. CASE D # {}
  <2>1. PICK j \in 1..m : j \in D
    BY <1>2
  <2>2. w[j] = x /\ \A i \in 1..m : i # j => w[i] = 0
    BY <2>1
  <2>3. SumOf(w) = w[j]
    BY <2>2, SumOne
  <2> QED
    BY <1>2, <2>2, <2>3
<1> QED
  BY <1>1, <1>2

EachOnce(q, m) == \A i, j \in 1..m : q[i] = q[j] => i = j
SharesMake(pkg, v, n, q, m) ==
  SumOf([j \in 1..m |-> Shared(pkg, v, n, q[j])]) + Unlisted(pkg, v, n, q, m) = SumOf(v)

LEMMA SharesAddUp ==
  ASSUME NEW n \in Nat, NEW m \in Nat, NEW v \in [1..n -> Int], NEW pkg, NEW q, EachOnce(q, m)
  PROVE  SharesMake(pkg, v, n, q, m)
<1>0. SUFFICES SumOf([j \in 1..m |-> Shared(pkg, v, n, q[j])]) + Unlisted(pkg, v, n, q, m) = SumOf(v)
  BY DEF SharesMake
<1>q. \A i, j \in 1..m : q[i] = q[j] => i = j
  BY DEF EachOnce
<1> DEFINE M == [j \in 1..m |-> [k \in 1..n |-> IF pkg[k] = q[j] THEN v[k] ELSE 0]]
           col == [k \in 1..n |-> SumOf([j \in 1..m |-> M[j][k]])]
           row == [j \in 1..m |-> SumOf([k \in 1..n |-> M[j][k]])]
           u == [k \in 1..n |-> IF \E j \in 1..m : q[j] = pkg[k] THEN 0 ELSE v[k]]
<1>1. M \in Table(m, n)
  BY DEF Table
<1>2. SumOf(row) = SumOf(col)
  <2> HIDE DEF M
  <2> QED
    BY <1>1, SumSwap DEF ByRows, ByColumns
<1>3. row = [j \in 1..m |-> Shared(pkg, v, n, q[j])]
  <2>1. ASSUME NEW j \in 1..m PROVE row[j] = Shared(pkg, v, n, q[j])
    <3>1. row[j] = SumOf([k \in 1..n |-> M[j][k]])
      BY Zenon
    <3>2. M[j] = [k \in 1..n |-> IF pkg[k] = q[j] THEN v[k] ELSE 0]
      BY Zenon
    <3>3. [k \in 1..n |-> M[j][k]] = [k \in 1..n |-> IF pkg[k] = q[j] THEN v[k] ELSE 0]
      <4> HIDE DEF M
      <4> QED
        BY <3>2
    <3> HIDE DEF M, row
    <3> QED
      BY <3>1, <3>3, Zenon DEF Shared
  <2>2. row = [j \in 1..m |-> row[j]]
    BY Zenon
  <2> HIDE DEF row
  <2> QED
    BY <2>1, <2>2, Zenon
<1>4. ASSUME NEW k \in 1..n PROVE col[k] = IF \E j \in 1..m : q[j] = pkg[k] THEN v[k] ELSE 0
  <2> DEFINE w == [j \in 1..m |-> M[j][k]]
  <2>1. col[k] = SumOf(w)
    BY Zenon
  <2>2. \A j \in 1..m : w[j] = IF pkg[k] = q[j] THEN v[k] ELSE 0
    OBVIOUS
  <2>3. w = [j \in 1..m |-> w[j]]
    BY Zenon
  <2>4. w \in [1..m -> Int]
    <3> HIDE DEF w
    <3>1. \A j \in 1..m : w[j] \in Int
      BY <2>2
    <3> QED
      BY <2>3, <3>1
  <2> DEFINE D == {j \in 1..m : q[j] = pkg[k]}
             x == v[k]
  <2>5. /\ D \in SUBSET (1..m) /\ \A i, j \in D : i = j
        /\ \A j \in 1..m : w[j] = IF j \in D THEN x ELSE 0
    BY <1>q, <2>2
  <2>6. (D = {}) <=> ~\E j \in 1..m : q[j] = pkg[k]
    OBVIOUS
  <2> HIDE DEF w, col, M, D, x
  <2>8. OnceOnly(m, w, D, x)
    BY <2>4, <2>5, Zenon DEF OnceOnly
  <2>7. SumOf(w) = IF D = {} THEN 0 ELSE x
    BY <2>8, SumAtMost
  <2> QED
    BY <2>1, <2>6, <2>7 DEF x
<1>5. col \in [1..n -> Int] /\ u \in [1..n -> Int] /\ \A k \in 1..n : col[k] + u[k] = v[k]
  <2>1. col = [k \in 1..n |-> col[k]]
    BY Zenon
  <2>2. \A k \in 1..n : u[k] = IF \E j \in 1..m : q[j] = pkg[k] THEN 0 ELSE v[k]
    BY Zenon
  <2>3. u = [k \in 1..n |-> u[k]]
    BY Zenon
  <2> HIDE DEF col, u
  <2>4. \A k \in 1..n : col[k] \in Int /\ u[k] \in Int /\ col[k] + u[k] = v[k]
    BY <1>4, <2>2
  <2> QED
    BY <2>1, <2>3, <2>4
<1> HIDE DEF col, row, M
<1>6. [k \in 1..n |-> col[k] + u[k]] = v
  <2> HIDE DEF u
  <2> QED
    BY <1>5
<1>7. SumOf([k \in 1..n |-> col[k] + u[k]]) = SumOf(col) + SumOf(u)
  <2> HIDE DEF u
  <2> QED
    BY <1>5, SumAdd
<1>8. SumOf(u) = Unlisted(pkg, v, n, q, m)
  BY Zenon DEF Unlisted
<1> HIDE DEF u
<1> QED
  BY <1>2, <1>3, <1>6, <1>7, <1>8

(* A list that climbs through all of a set holds it in order.              *)
Climbs(S, n, f) == /\ f \in [1..n -> S]
                   /\ \A j, k \in 1..n : j < k => f[j] < f[k]
                   /\ \A x \in S : \E k \in 1..n : f[k] = x

LEMMA ClimbIsNth ==
  ASSUME NEW S \in SUBSET Nat, NEW n \in Nat, NEW f, Climbs(S, n, f)
  PROVE  Cardinality(S) = n /\ \A k \in 1..n : f[k] = Nth(S, k)
<1>1. /\ \A k \in 1..n : f[k] \in S /\ f[k] \in Nat
      /\ \A j, k \in 1..n : j < k => f[j] < f[k]
      /\ \A x \in S : \E k \in 1..n : f[k] = x
  BY DEF Climbs
<1>2. ASSUME NEW j \in 1..n, NEW k \in 1..n, f[j] = f[k] PROVE j = k
  <2>1. ~(j < k) /\ ~(k < j)
    BY <1>1, <1>2
  <2> QED
    BY <2>1
<1>3. ASSUME NEW k \in 1..n, NEW j \in 1..n PROVE f[j] < f[k] <=> j < k
  <2>1. j < k \/ j = k \/ k < j
    OBVIOUS
  <2>2. k < j => f[k] < f[j]
    BY <1>1
  <2> QED
    BY <1>1, <2>1, <2>2
<1>4. IsFiniteSet(1..n) /\ Cardinality(1..n) = n
  BY FS_Interval
<1>5. OneToOne(1..n, S, f)
  BY <1>1, <1>2 DEF OneToOne, Climbs
<1>6. IsFiniteSet(S) /\ Cardinality(S) = n
  <2>1. f \in Bijection(1..n, S)
    BY <1>5 DEF OneToOne, Bijection, Injection, Surjection, IsInjective
  <2> QED
    BY <1>4, <2>1, FS_Bijection DEF ExistsBijection
<1>7. ASSUME NEW k \in 1..n PROVE Rank(S, f[k]) = k - 1
  <2> DEFINE T == {y \in S : y < f[k]}
             D == 1..(k - 1)
             g == [j \in D |-> f[j]]
  <2>1. IsFiniteSet(D) /\ Cardinality(D) = k - 1
    BY FS_Interval
  <2>2. \A j \in D : j \in 1..n /\ j < k
    OBVIOUS
  <2>3. \A j \in D : f[j] \in T
    BY <1>1, <2>2
  <2>4. \A x \in T : \E j \in D : f[j] = x
    <3>1. ASSUME NEW x \in T PROVE \E j \in D : f[j] = x
      <4>1. PICK j \in 1..n : f[j] = x
        BY <1>1
      <4>2. j < k
        BY <1>3, <4>1
      <4> QED
        BY <4>1, <4>2
    <3> QED
      BY <3>1
  <2>5. \A i, j \in D : f[i] = f[j] => i = j
    BY <1>2, <2>2
  <2>6. OneToOne(D, T, g)
    <3>1. g \in [D -> T] /\ \A j \in D : g[j] = f[j]
      BY <2>3
    <3> HIDE DEF g, T, D
    <3> QED
      BY <2>4, <2>5, <3>1 DEF OneToOne
  <2>7. Cardinality(T) = Cardinality(D)
    BY <2>1, <2>6, SameCount
  <2> QED
    BY <2>1, <2>7 DEF Rank
<1>8. ASSUME NEW k \in 1..n PROVE f[k] = Nth(S, k)
  <2>1. f[k] \in S /\ Rank(S, f[k]) = k - 1
    BY <1>1, <1>7
  <2>2. Nth(S, k) \in S /\ Rank(S, Nth(S, k)) = k - 1
    BY <2>1 DEF Nth, Rank
  <2>3. PICK j \in 1..n : f[j] = Nth(S, k)
    BY <1>1, <2>2
  <2>4. j - 1 = k - 1
    BY <1>7, <2>2, <2>3
  <2>5. j = k
    BY <2>4
  <2> QED
    BY <2>3, <2>5
<1> QED
  BY <1>6, <1>8
=============================================================================
