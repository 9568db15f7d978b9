----------------------------- MODULE NameMatch -----------------------------
(***************************************************************************)
(* How --fn and --filter select functions by name (filterPairs, matchFuncs,*)
(* closestNames and levenshtein in src/main.go, matchNames in src/single.go*)
(* which does what matchFuncs does).  A name is a sequence of letters, the *)
(* letters are numbers; the functions are records with a field name.       *)
(***************************************************************************)
EXTENDS Lists, SequencesExt

CONSTANTS Regexps  \* the names that each pattern that compiles matches

HasSub(name, sub) ==
  \E k \in 0..(Len(name) - Len(sub)) : SubSeq(name, k + 1, k + Len(sub)) = sub

(* filterPairs: a filter is a text or a pattern; the latter may not compile*)
Compiles(filters) ==
  \A k \in DOMAIN filters : filters[k].regexp => filters[k].text \in DOMAIN Regexps
Passes(name, filter) ==
  IF filter.regexp THEN name \in Regexps[filter.text] ELSE HasSub(name, filter.text)
FilterPairs(ps, filters) ==
  IF filters = <<>> THEN ps
  ELSE Chosen(ps, {j \in DOMAIN ps : \E k \in DOMAIN filters : Passes(ps[j].name, filters[k])})

(* matchFuncs: an exact name wins, else all that contain it.  Defects are  *)
(* seeded before the definitions they replace; no specification uses one.  *)
Containing(ps, name) == Chosen(ps, {k \in DOMAIN ps : HasSub(ps[k].name, name)})
DefectMatchFuncs(ps, name) == Containing(ps, name)
MatchFuncs(ps, name) ==
  LET exact == {k \in DOMAIN ps : ps[k].name = name}
  IN  IF exact # {} THEN <<ps[Min(exact)]>> ELSE Containing(ps, name)

-----------------------------------------------------------------------------
(* levenshtein: two rows that change places; the next row is written over  *)
(* the one before the last, from left to right.  Cell j is at j + 1.       *)
Least(x, y) == IF x < y THEN x ELSE y
Larger(x, y) == IF x < y THEN y ELSE x
NextCell(a, b, prev, row, i) ==
  LET j == Len(row)
  IN  Least(Least(prev[j + 1], row[j]) + 1, prev[j] + IF a[i] = b[j] THEN 0 ELSE 1)
Written(a, b, prev, first, i) ==
  LET longer == [row \in Seq(Nat) |-> Append(row, NextCell(a, b, prev, row, i))]
      upTo[j \in 0..Len(b)] == IF j = 0 THEN <<first>> ELSE longer[upTo[j - 1]]
  IN  upTo[Len(b)]

(* The first cell of the row written over is left as it was.               *)
DefectNextRows(a, b, rows, i) == [prev |-> Written(a, b, rows.prev, rows.cur[1], i), cur |-> rows.prev]
NextRows(a, b, rows, i) == [prev |-> Written(a, b, rows.prev, i, i), cur |-> rows.prev]

FirstRows(b) == [prev |-> [j \in 1..(Len(b) + 1) |-> j - 1], cur |-> [j \in 1..(Len(b) + 1) |-> 0]]
Levenshtein(a, b) ==
  LET next == [i \in 1..Len(a) |-> [rows \in [prev : Seq(Nat), cur : Seq(Nat)] |-> NextRows(a, b, rows, i)]]
      after[i \in 0..Len(a)] == IF i = 0 THEN FirstRows(b) ELSE next[i][after[i - 1]]
  IN  after[Len(a)].prev[Len(b) + 1]

(* cmp.Compare of names.                                                   *)
Before(a, b) == \E k \in 0..Len(a) : /\ k < Len(b)
                                     /\ \A j \in 1..k : a[j] = b[j]
                                     /\ k < Len(a) => a[k + 1] < b[k + 1]

ClosestNames(ps, name, n) ==
  LET candidates == {[name |-> ps[k].name, dist |-> Levenshtein(name, ps[k].name)] : k \in DOMAIN ps}
      near == {p \in candidates : p.dist <= Larger(Len(name), Len(p.name)) \div 2}
      Nearer(p, q) == p.dist < q.dist \/ (p.dist = q.dist /\ Before(p.name, q.name))
      ranked == Sorted(near, {e \in near \X near : Nearer(e[1], e[2])})
  IN  [k \in 1..Least(n, Len(ranked)) |-> ranked[k].name]

-----------------------------------------------------------------------------
(* What the distance of two names is: the least number of letters that     *)
(* differ or are left over when letters of one are matched, in order, with *)
(* letters of the other.                                                   *)
Matchings(a, b) ==
  {m \in SUBSET ((DOMAIN a) \X (DOMAIN b)) : \A p, q \in m : p # q => (p[1] < q[1] /\ p[2] < q[2])
                                                                  \/ (q[1] < p[1] /\ q[2] < p[2])}
Cost(a, b, m) == Len(a) + Len(b) - 2 * Cardinality(m) + Cardinality({p \in m : a[p[1]] # b[p[2]]})
EditDistance(a, b) == Min({Cost(a, b, m) : m \in Matchings(a, b)})

(* The names s are the n of those known that are nearest to the name, none *)
(* that differs in more than half, none nearer left out.                   *)
AreNearest(s, name, known, n) ==
  LET far == [m \in known |-> EditDistance(name, m)]
      near == {m \in known : 2 * far[m] <= Larger(Len(name), Len(m))}
  IN  /\ Range(s) \subseteq near /\ IsInjective(s)
      /\ Len(s) = Least(n, Cardinality(near))
      /\ \A j, k \in DOMAIN s : j < k => far[s[j]] <= far[s[k]]
      /\ \A m \in near \ Range(s), k \in DOMAIN s : far[s[k]] <= far[m]
=============================================================================
