--------------------------- MODULE LineDiffProofs ---------------------------
(***************************************************************************)
(* The edit script of LineDiff rebuilds both sides, is minimal where the   *)
(* table fits, and has deletes before inserts: for all texts, inputs and   *)
(* table sizes.  The bounds by which bodySimilar avoids one reject nothing,*)
(* and the hunks and rows of Report show all that a script changes, each   *)
(* line once.                                                              *)
(***************************************************************************)
EXTENDS BodySimilar, Report, FiniteSetTheorems, SequenceTheorems, WellFoundedInduction, TLAPS

(* The regions that may be left to do; lines to be copied are equal.       *)
Sound == {g \in Region :
            /\ g.a1 <= g.a2 /\ g.a2 <= Len(a)
            /\ g.b1 <= g.b2 /\ g.b2 <= Len(b)
            /\ g.task = "keep" =>
                 /\ Width(g) = Height(g) /\ Width(g) > 0
                 /\ \A n \in 0..(Width(g) - 1) : At(a, g.a1 + n) = At(b, g.b1 + n)}

(* Regions in a row, from p to q.                                          *)
Start(g) == <<g.a1, g.b1>>
End(g) == <<g.a2, g.b2>>
Chain(rs, p, q) ==
  IF rs = <<>> THEN p = q
  ELSE /\ Start(rs[1]) = p
       /\ End(rs[Len(rs)]) = q
       /\ \A k \in 1..(Len(rs) - 1) : End(rs[k]) = Start(rs[k + 1])

(* Of two regions in a row one is to be copied.                            *)
Alternate(rs) == \A k \in 1..(Len(rs) - 1) : rs[k].task = "keep" \/ rs[k + 1].task = "keep"

(* o[k] is the number of lines of side s that the first k edits of es     *)
(* show, which are all but the ones called skip.                           *)
Counts(es, s, skip, o) ==
  /\ o \in [0..Len(es) -> Nat] /\ o[0] = 0
  /\ \A k \in 1..Len(es) :
       \/ es[k].op = skip /\ o[k] = o[k - 1]
       \/ es[k].op # skip /\ o[k] = o[k - 1] + 1 /\ es[k].text = At(s, o[k - 1])

Reaches(es, s, skip, v) == \E o : Counts(es, s, skip, o) /\ o[Len(es)] = v

(* A block of edits of one kind, showing lines of s from v on.             *)
Block(ts, op, s, skip, v) ==
  \A k \in 1..Len(ts) : ts[k].op = op /\ (op # skip => ts[k].text = At(s, v + (k - 1)))

Script(es, o, n) == Counts(es, a, "insert", o) /\ Counts(es, b, "delete", n)

Resolved(o, n) ==
  /\ Len(lines) <= Len(edits)
  /\ oi = o[Len(lines)] /\ ni = n[Len(lines)]
  /\ \A k \in 1..Len(lines) :
       lines[k] = [op   |-> edits[k].op,
                   old  |-> IF edits[k].op = "insert" THEN NoAddr ELSE o[k - 1],
                   new  |-> IF edits[k].op = "delete" THEN NoAddr ELSE n[k - 1],
                   text |-> edits[k].text]

Typed == /\ <<a, b>> \in Inputs /\ a \in Seq(Text) /\ b \in Seq(Text)
         /\ todo \in Seq(Sound)
         /\ edits \in Seq(Edit)
         /\ lines \in Seq(Line)
         /\ todo # <<>> => lines = <<>>

ScriptInv ==
  \E o, n : /\ Script(edits, o, n)
            /\ Chain(todo, <<o[Len(edits)], n[Len(edits)]>>, <<Len(a), Len(b)>>)
            /\ Resolved(o, n)

IInv == Typed /\ ScriptInv /\ Alternate(todo)

-----------------------------------------------------------------------------
(* A set of natural numbers with an element has a least one.               *)
LEMMA LeastElement ==
  ASSUME NEW S \in SUBSET Nat, S # {}
  PROVE  \E k \in S : \A m \in S : k <= m
<1> DEFINE R == OpToRel(<, Nat)
<1>1. R = {ss \in Nat \X Nat : ss[1] < ss[2]}
  BY DEF OpToRel
<1>2. IsWellFoundedOn(R, Nat)
  BY NatLessThanWellFounded
<1> HIDE DEF R
<1>3. PICK k \in S : \A m \in S : ~(<<m, k>> \in R)
  BY <1>2, WFMin
<1>4. ASSUME NEW m \in S PROVE k <= m
  <2>1. ~(m < k)
    BY <1>1, <1>3
  <2> QED
    BY <2>1
<1> QED
  BY <1>4

LEMMA EmptyLen ==
  ASSUME NEW S, NEW s \in Seq(S)
  PROVE  /\ Len(s) \in Nat
         /\ s = <<>> <=> Len(s) = 0
BY EmptySeq, LenProperties

(* What stands where in a concatenation.                                   *)
LEMMA FunctionIsSeq ==
  ASSUME NEW S, NEW m \in Nat, NEW r \in [1..m -> S]
  PROVE  r \in Seq(S) /\ Len(r) = m
<1>1. r \in Seq(S)
  BY SeqDef, Zenon
<1>2. Len(r) \in Nat /\ DOMAIN r = 1..Len(r) /\ DOMAIN r = 1..m
  BY <1>1, LenProperties
<1> QED
  BY <1>1, <1>2

LEMMA Concatenated ==
  ASSUME NEW S, NEW r \in Seq(S), NEW s \in Seq(S)
  PROVE  /\ r \o s \in Seq(S) /\ Len(r \o s) = Len(r) + Len(s)
         /\ Len(r) \in Nat /\ Len(s) \in Nat
         /\ \A k \in 1..Len(r) : (r \o s)[k] = r[k]
         /\ \A k \in 1..Len(s) : (r \o s)[Len(r) + k] = s[k]
<1>1. Len(r) \in Nat /\ Len(s) \in Nat
  BY LenProperties
<1> QED
  BY <1>1, ConcatProperties

LEMMA ChainConcat ==
  ASSUME NEW S, NEW r \in Seq(S), NEW s \in Seq(S), NEW p, NEW q, NEW t, Chain(r, p, q), Chain(s, q, t)
  PROVE  Chain(r \o s, p, t)
<1>1. CASE r = <<>>
  BY <1>1, ConcatEmptySeq DEF Chain
<1>2. CASE s = <<>>
  BY <1>2, ConcatEmptySeq DEF Chain
<1>3. CASE r # <<>> /\ s # <<>>
  <2>1. /\ Len(r) \in Nat \ {0} /\ Len(s) \in Nat \ {0}
        /\ r \o s \in Seq(S) /\ Len(r \o s) = Len(r) + Len(s)
        /\ \A k \in 1..Len(r) : (r \o s)[k] = r[k]
        /\ \A k \in 1..Len(s) : (r \o s)[Len(r) + k] = s[k]
    BY <1>3, EmptyLen, Concatenated
  <2>2. r \o s # <<>>
    BY <1>3, <2>1, EmptySeq
  <2>3. Start((r \o s)[1]) = p
    BY <1>3, <2>1 DEF Chain
  <2>4. End((r \o s)[Len(r \o s)]) = t
    BY <1>3, <2>1 DEF Chain
  <2>5. ASSUME NEW k \in 1..(Len(r \o s) - 1) PROVE End((r \o s)[k]) = Start((r \o s)[k + 1])
    <3>1. CASE k < Len(r)
      <4>1. k \in 1..(Len(r) - 1) /\ k \in 1..Len(r) /\ k + 1 \in 1..Len(r)
        BY <2>1, <3>1
      <4> QED
        BY <1>3, <2>1, <4>1 DEF Chain
    <3>2. CASE k = Len(r)
      <4>1. 1 \in 1..Len(s)
        BY <2>1
      <4> QED
        BY <1>3, <2>1, <3>2, <4>1 DEF Chain
    <3>3. CASE k > Len(r)
      <4> DEFINE m == k - Len(r)
      <4>1. m \in 1..(Len(s) - 1) /\ k = Len(r) + m
        BY <2>1, <3>3
      <4>2. m \in 1..Len(s) /\ m + 1 \in 1..Len(s) /\ k + 1 = Len(r) + (m + 1)
        BY <2>1, <4>1
      <4> QED
        BY <1>3, <2>1, <4>1, <4>2 DEF Chain
    <3> QED
      BY <2>1, <3>1, <3>2, <3>3
  <2> QED
    BY <2>2, <2>3, <2>4, <2>5 DEF Chain
<1> QED
  BY <1>1, <1>2, <1>3

(* The first region and the rest.                                          *)
LEMMA ChainRest ==
  ASSUME NEW S, NEW r \in Seq(S), r # <<>>, NEW p, NEW q, Chain(r, p, q)
  PROVE  /\ Start(Head(r)) = p
         /\ Chain(Tail(r), End(Head(r)), q)
<1> DEFINE t == Tail(r)
<1>1. /\ Len(r) \in Nat \ {0} /\ Head(r) = r[1]
      /\ t \in Seq(S) /\ Len(t) = Len(r) - 1
      /\ \A k \in 1..Len(t) : t[k] = r[k + 1]
  <2>1. Head(r) = r[1]
    OBVIOUS
  <2> QED
    BY <2>1, EmptySeq, HeadTailProperties
<1>2. /\ Start(r[1]) = p /\ End(r[Len(r)]) = q
      /\ \A k \in 1..(Len(r) - 1) : End(r[k]) = Start(r[k + 1])
  BY DEF Chain
<1> HIDE DEF t
<1>3. t = <<>> <=> Len(r) = 1
  BY <1>1, EmptyLen
<1>4. Chain(t, End(r[1]), q)
  <2>1. CASE t = <<>>
    BY <1>2, <1>3, <2>1 DEF Chain
  <2>2. CASE t # <<>>
    <3>1. t[1] = r[2] /\ t[Len(t)] = r[Len(r)] /\ End(r[1]) = Start(r[2])
      BY <1>1, <1>2, <1>3, <2>2
    <3>2. ASSUME NEW k \in 1..(Len(t) - 1) PROVE End(t[k]) = Start(t[k + 1])
      BY <1>1, <1>2
    <3> QED
      BY <1>2, <2>2, <3>1, <3>2 DEF Chain
  <2> QED
    BY <2>1, <2>2
<1> QED
  BY <1>1, <1>2, <1>4 DEF t

(* A pushed list of regions takes the place of the top.                    *)
LEMMA PushKeeps ==
  ASSUME Typed, todo # <<>>, NEW rs \in Seq(Sound), Push(rs), UNCHANGED input,
         NEW p, NEW q, Chain(todo, p, q)
  PROVE  /\ Top \in Sound /\ Start(Top) = p
         /\ Sound' = Sound
         /\ todo' \in Seq(Sound)
         /\ \A p2 : Chain(rs, p2, End(Top)) => Chain(todo', p2, q)
<1>1. /\ Top \in Sound /\ Tail(todo) \in Seq(Sound) /\ todo' = rs \o Tail(todo)
  BY HeadTailProperties DEF Typed, Top, Push
<1>2. Start(Top) = p /\ Chain(Tail(todo), End(Top), q)
  BY ChainRest DEF Typed, Top
<1>3. Sound' = Sound
  BY DEF Sound, input, Width, Height, At
<1>4. todo' \in Seq(Sound)
  BY <1>1, ConcatProperties
<1>5. ASSUME NEW p2, Chain(rs, p2, End(Top)) PROVE Chain(todo', p2, q)
  BY <1>1, <1>2, <1>5, ChainConcat
<1> QED
  BY <1>1, <1>2, <1>3, <1>4, <1>5

LEMMA PushAlternates ==
  ASSUME Typed, todo # <<>>, NEW rs \in Seq(Sound), Push(rs), Alternate(todo), Alternate(rs),
         Top.task # "keep" \/ rs = <<>>
  PROVE  Alternate(todo')
<1> DEFINE t == Tail(todo)
<1>1. /\ Len(todo) \in Nat \ {0} /\ Top = todo[1]
      /\ t \in Seq(Sound) /\ Len(t) = Len(todo) - 1
      /\ \A k \in 1..Len(t) : t[k] = todo[k + 1]
  <2>1. Head(todo) = todo[1]
    OBVIOUS
  <2> QED
    BY <2>1, EmptySeq, HeadTailProperties DEF Typed, Top
<1>2. todo' = rs \o t
  BY DEF Push
<1> HIDE DEF t
<1>3. \A k \in 1..(Len(t) - 1) : t[k].task = "keep" \/ t[k + 1].task = "keep"
  BY <1>1 DEF Alternate
<1>4. CASE rs = <<>>
  BY <1>1, <1>2, <1>3, <1>4, ConcatEmptySeq DEF Alternate
<1>5. CASE Top.task # "keep"
  <2>1. /\ Len(rs) \in Nat /\ Len(t) \in Nat /\ Len(todo') = Len(rs) + Len(t)
        /\ \A k \in 1..Len(rs) : todo'[k] = rs[k]
        /\ \A k \in 1..Len(t) : todo'[Len(rs) + k] = t[k]
    <3>1. /\ Len(rs) \in Nat /\ Len(t) \in Nat /\ Len(rs \o t) = Len(rs) + Len(t)
          /\ \A k \in 1..Len(rs) : (rs \o t)[k] = rs[k]
          /\ \A k \in 1..Len(t) : (rs \o t)[Len(rs) + k] = t[k]
      <4>1. rs \in Seq(Sound) /\ t \in Seq(Sound)
        BY <1>1
      <4> QED
        BY <4>1, Concatenated
    <3> QED
      BY <1>2, <3>1
  <2>2. Len(t) > 0 => t[1].task = "keep"
    BY <1>1, <1>5 DEF Alternate
  <2>3. ASSUME NEW k \in 1..(Len(todo') - 1)
        PROVE  todo'[k].task = "keep" \/ todo'[k + 1].task = "keep"
    <3>1. CASE k < Len(rs)
      <4>1. k \in 1..(Len(rs) - 1) /\ todo'[k] = rs[k] /\ todo'[k + 1] = rs[k + 1]
        BY <2>1, <3>1
      <4> QED
        BY <4>1 DEF Alternate
    <3>2. CASE k = Len(rs)
      BY <2>1, <2>2, <3>2
    <3>3. CASE k > Len(rs)
      <4> DEFINE m == k - Len(rs)
      <4>1. m \in 1..(Len(t) - 1) /\ m \in 1..Len(t) /\ m + 1 \in 1..Len(t)
            /\ k = Len(rs) + m /\ k + 1 = Len(rs) + (m + 1)
        BY <2>1, <3>3
      <4> HIDE DEF m
      <4>2. todo'[k] = t[m] /\ todo'[k + 1] = t[m + 1]
        BY <2>1, <4>1
      <4> QED
        BY <1>3, <4>1, <4>2
    <3> QED
      BY <2>1, <3>1, <3>2, <3>3
  <2> QED
    BY <2>3 DEF Alternate
<1> QED
  BY <1>4, <1>5

(* A block of edits of one kind that goes on where the count ends.         *)
LEMMA ExtendCounts ==
  ASSUME NEW es \in Seq(Edit), NEW s, NEW skip, NEW v, Reaches(es, s, skip, v),
         NEW op, NEW ts \in Seq(Edit), Block(ts, op, s, skip, v)
  PROVE  Reaches(es \o ts, s, skip, IF op = skip THEN v ELSE v + Len(ts))
<1>0. PICK o : Counts(es, s, skip, o) /\ o[Len(es)] = v
  BY DEF Reaches
<1>1. SUFFICES ASSUME NEW L \in Nat, NEW M \in Nat, L = Len(es), M = Len(ts)
               PROVE  \E o2 : /\ Counts(es \o ts, s, skip, o2)
                              /\ o2[L + M] = IF op = skip THEN o[L] ELSE o[L] + M
  <2>1. Len(es) \in Nat /\ Len(ts) \in Nat /\ Len(es \o ts) = Len(es) + Len(ts)
    BY Concatenated
  <2> QED
    BY <2>1, <1>0, <1>1 DEF Reaches
<1> DEFINE o2 == [k \in 0..(L + M) |-> IF k <= L THEN o[k] ELSE IF op = skip THEN o[L] ELSE o[L] + (k - L)]
<1>2. /\ Len(es \o ts) = L + M
      /\ \A k \in 1..L : (es \o ts)[k] = es[k]
      /\ \A k \in 1..M : (es \o ts)[L + k] = ts[k]
  BY <1>1, Concatenated
<1>3. /\ o \in [0..L -> Nat] /\ o[0] = 0 /\ o[L] \in Nat
      /\ \A k \in 1..L : \/ es[k].op = skip /\ o[k] = o[k - 1]
                         \/ es[k].op # skip /\ o[k] = o[k - 1] + 1 /\ es[k].text = At(s, o[k - 1])
  BY <1>0, <1>1 DEF Counts
<1>4. /\ o2 \in [0..(L + M) -> Nat]
      /\ \A k \in 0..L : o2[k] = o[k]
      /\ \A k \in 0..M : o2[L + k] = IF op = skip THEN o[L] ELSE o[L] + k
  <2>1. ASSUME NEW k \in 0..(L + M)
        PROVE  (IF k <= L THEN o[k] ELSE IF op = skip THEN o[L] ELSE o[L] + (k - L)) \in Nat
    BY <1>3
  <2>2. o2 \in [0..(L + M) -> Nat]
    BY <2>1
  <2>3. \A k \in 0..L : o2[k] = o[k]
    OBVIOUS
  <2>4. ASSUME NEW k \in 0..M PROVE o2[L + k] = IF op = skip THEN o[L] ELSE o[L] + k
    <3>1. L + k \in 0..(L + M) /\ (L + k) - L = k /\ (L + k <= L => k = 0)
      OBVIOUS
    <3>2. o[L] + 0 = o[L]
      BY <1>3
    <3> QED
      BY <3>1, <3>2
  <2> QED
    BY <2>2, <2>3, <2>4
<1> HIDE DEF o2
<1>5. ASSUME NEW k \in 1..(L + M)
      PROVE  \/ (es \o ts)[k].op = skip /\ o2[k] = o2[k - 1]
             \/ (es \o ts)[k].op # skip /\ o2[k] = o2[k - 1] + 1 /\ (es \o ts)[k].text = At(s, o2[k - 1])
  <2>1. CASE k \in 1..L
    <3>1. k \in 0..L /\ k - 1 \in 0..L
      BY <2>1
    <3> QED
      BY <1>2, <1>3, <1>4, <2>1, <3>1
  <2>2. CASE k \notin 1..L
    <3> DEFINE m == k - L
    <3>1. m \in 1..M /\ m \in 0..M /\ m - 1 \in 0..M /\ k = L + m /\ k - 1 = L + (m - 1)
      BY <2>2
    <3> HIDE DEF m
    <3>2. /\ (es \o ts)[k] = ts[m] /\ ts[m].op = op
          /\ op # skip => ts[m].text = At(s, o[L] + (m - 1))
          /\ o2[k] = (IF op = skip THEN o[L] ELSE o[L] + m)
          /\ o2[k - 1] = (IF op = skip THEN o[L] ELSE o[L] + (m - 1))
      BY <1>0, <1>1, <1>2, <1>4, <3>1 DEF Block
    <3>3. (o[L] + (m - 1)) + 1 = o[L] + m
      BY <1>3, <3>1
    <3> QED
      BY <3>2, <3>3
  <2> QED
    BY <2>1, <2>2
<1>6. o2[0] = 0
  BY <1>3, <1>4
<1>7. Counts(es \o ts, s, skip, o2)
  BY <1>2, <1>4, <1>5, <1>6 DEF Counts
<1>8. o2[L + M] = IF op = skip THEN o[L] ELSE o[L] + M
  <2>1. M \in 0..M
    OBVIOUS
  <2> QED
    BY <1>4, <2>1
<1> QED
  BY <1>7, <1>8

(* The edits of one kind that show s[from:to].                             *)
Shows(ts, op, s, from, to) ==
  /\ ts \in Seq(Edit) /\ Len(ts) = to - from
  /\ \A k \in 1..(to - from) : ts[k].op = op /\ ts[k].text = At(s, from + (k - 1))

LEMMA EditsBlock ==
  ASSUME NEW op \in Op, NEW s \in Seq(Text), NEW from \in Nat, NEW to \in Nat, from <= to, to <= Len(s)
  PROVE  Shows(Edits(op, s, from, to), op, s, from, to)
<1> DEFINE m == to - from
           ts == [k \in 1..m |-> [op |-> op, text |-> At(s, from + k - 1)]]
<1>1. m \in Nat
  OBVIOUS
<1>2. Len(s) \in Nat /\ \A k \in 1..Len(s) : s[k] \in Text
  BY LenProperties, ElementOfSeq
<1>3. ASSUME NEW k \in 1..m PROVE At(s, from + k - 1) \in Text /\ from + k - 1 = from + (k - 1)
  <2>1. (from + k - 1) + 1 \in 1..Len(s) /\ from + k - 1 = from + (k - 1)
    BY <1>1, <1>2
  <2> QED
    BY <1>2, <2>1 DEF At
<1>4. Edits(op, s, from, to) = ts
  BY DEF Edits
<1> HIDE DEF m
<1>5. ts \in [1..m -> Edit]
  BY <1>3 DEF Edit
<1>6. ts \in Seq(Edit) /\ Len(ts) = m
  BY <1>1, <1>5, FunctionIsSeq
<1>7. \A k \in 1..m : ts[k].op = op /\ ts[k].text = At(s, from + (k - 1))
  BY <1>3
<1> QED
  BY <1>4, <1>6, <1>7 DEF m, Shows

-----------------------------------------------------------------------------
(* A step of the recursion: what it appends continues the script, and what *)
(* it pushes leads from there to the end of the top.                       *)
LEMMA StepKeeps ==
  ASSUME IInv, todo # <<>>, NEW rs \in Seq(Sound), Push(rs), Alternate(rs),
         Top.task # "keep" \/ rs = <<>>,
         edits' \in Seq(Edit), NEW p, NEW q,
         Reaches(edits', a, "insert", p), Reaches(edits', b, "delete", q),
         Chain(rs, <<p, q>>, End(Top)),
         UNCHANGED <<input, lines, oi, ni>>
  PROVE  IInv'
<1>1. PICK o, n : /\ Script(edits, o, n)
                  /\ Chain(todo, <<o[Len(edits)], n[Len(edits)]>>, <<Len(a), Len(b)>>)
                  /\ Resolved(o, n)
  BY DEF IInv, ScriptInv
<1>0. PICK o2 : Counts(edits', a, "insert", o2) /\ o2[Len(edits')] = p
  BY DEF Reaches
<1>12. PICK n2 : Counts(edits', b, "delete", n2) /\ n2[Len(edits')] = q
  BY DEF Reaches
<1>2. /\ Sound' = Sound /\ todo' \in Seq(Sound)
      /\ Chain(todo', <<o2[Len(edits')], n2[Len(edits')]>>, <<Len(a), Len(b)>>)
  BY <1>0, <1>12, <1>1, PushKeeps DEF IInv
<1>3. Alternate(todo')
  BY PushAlternates DEF IInv
<1>4. /\ lines = <<>> /\ Typed /\ a' = a /\ b' = b /\ lines' = lines /\ oi' = oi /\ ni' = ni
  BY DEF IInv, Typed, input
<1>5. Typed'
  BY <1>2, <1>4 DEF Typed
<1>6. Len(lines) = 0 /\ oi = 0 /\ ni = 0
  <2>1. Len(lines) = 0
    BY <1>4
  <2> QED
    BY <1>1, <2>1 DEF Resolved, Script, Counts
<1>7. o2[0] = 0 /\ n2[0] = 0 /\ Len(edits') \in Nat
  BY <1>0, <1>12, LenProperties DEF Counts
<1>8. Resolved(o2, n2)'
  BY <1>4, <1>6, <1>7 DEF Resolved
<1>9. Script(edits, o2, n2)'
  BY <1>0, <1>12, <1>4 DEF Script, Counts, At
<1>10. Chain(todo, <<o2[Len(edits)], n2[Len(edits)]>>, <<Len(a), Len(b)>>)'
  BY <1>2, <1>4
<1>11. ScriptInv'
  BY <1>8, <1>9, <1>10 DEF ScriptInv
<1> QED
  BY <1>3, <1>5, <1>11 DEF IInv

(* Nothing is appended.                                                    *)
LEMMA RearrangeKeeps ==
  ASSUME IInv, todo # <<>>, NEW rs \in Seq(Sound), Push(rs), Alternate(rs), Top.task # "keep",
         Chain(rs, Start(Top), End(Top)), UNCHANGED <<input, edits, lines, oi, ni>>
  PROVE  IInv'
<1>1. PICK o, n : /\ Script(edits, o, n)
                  /\ Chain(todo, <<o[Len(edits)], n[Len(edits)]>>, <<Len(a), Len(b)>>)
  BY DEF IInv, ScriptInv
<1>2. Start(Top) = <<o[Len(edits)], n[Len(edits)]>>
  BY <1>1, PushKeeps DEF IInv
<1>3. edits' = edits /\ edits \in Seq(Edit)
  BY DEF IInv, Typed
<1>4. /\ Reaches(edits, a, "insert", o[Len(edits)])
      /\ Reaches(edits, b, "delete", n[Len(edits)])
  BY <1>1 DEF Script, Reaches
<1> QED
  BY <1>1, <1>2, <1>3, <1>4, StepKeeps

(* The region on top of the stack begins where the script ends.            *)
LEMMA TopFacts ==
  ASSUME IInv, todo # <<>>
  PROVE  /\ Top \in Sound /\ Top.a1 \in Nat /\ Top.a2 \in Nat /\ Top.b1 \in Nat /\ Top.b2 \in Nat
         /\ Top.a1 <= Top.a2 /\ Top.a2 <= Len(a) /\ Top.b1 <= Top.b2 /\ Top.b2 <= Len(b)
         /\ a \in Seq(Text) /\ b \in Seq(Text) /\ Len(a) \in Nat /\ Len(b) \in Nat
         /\ edits \in Seq(Edit)
         /\ Reaches(edits, a, "insert", Top.a1)
         /\ Reaches(edits, b, "delete", Top.b1)
<1>1. PICK o, n : /\ Script(edits, o, n)
                  /\ Chain(todo, <<o[Len(edits)], n[Len(edits)]>>, <<Len(a), Len(b)>>)
  BY DEF IInv, ScriptInv
<1>2. todo \in Seq(Sound) /\ a \in Seq(Text) /\ b \in Seq(Text) /\ edits \in Seq(Edit)
  BY DEF IInv, Typed
<1>3. Start(Top) = <<o[Len(edits)], n[Len(edits)]>> /\ Top \in Sound
  BY <1>1, <1>2, ChainRest, HeadTailProperties DEF Top
<1>4. /\ Reaches(edits, a, "insert", Top.a1)
      /\ Reaches(edits, b, "delete", Top.b1)
  BY <1>1, <1>3 DEF Script, Reaches, Start
<1>5. Len(a) \in Nat /\ Len(b) \in Nat
  BY <1>2, LenProperties
<1> QED
  BY <1>2, <1>3, <1>4, <1>5 DEF Sound, Region

LEMMA SingleRegion ==
  ASSUME NEW g \in Sound
  PROVE  /\ <<g>> \in Seq(Sound) /\ Len(<<g>>) = 1 /\ <<g>>[1] = g /\ <<g>> # <<>>
         /\ Chain(<<g>>, Start(g), End(g))
         /\ Alternate(<<g>>)
<1>1. /\ <<g>> \in Seq(Sound) /\ Len(<<g>>) = 1 /\ <<g>>[1] = g /\ <<g>> # <<>>
  OBVIOUS
<1> QED
  BY <1>1 DEF Chain, Alternate

LEMMA NoRegion ==
  /\ <<>> \in Seq(Sound) /\ Alternate(<<>>) /\ \A p : Chain(<<>>, p, p)
BY EmptySeq DEF Chain, Alternate

LEMMA AlternateAround ==
  ASSUME NEW r \in Seq(Sound), NEW s \in Seq(Sound), NEW g \in Sound,
         \A k \in 1..Len(r) : r[k].task = "keep", \A k \in 1..Len(s) : s[k].task = "keep",
         Len(r) <= 1, Len(s) <= 1
  PROVE  /\ (r \o <<g>>) \o s \in Seq(Sound)
         /\ Alternate((r \o <<g>>) \o s)
<1> DEFINE h == r \o <<g>>
<1>1. /\ h \in Seq(Sound) /\ Len(h) = Len(r) + 1
      /\ Len(r) \in Nat /\ \A k \in 1..Len(r) : h[k] = r[k]
  BY SingleRegion, Concatenated
<1> HIDE DEF h
<1>2. /\ h \o s \in Seq(Sound) /\ Len(h \o s) = Len(h) + Len(s) /\ Len(s) \in Nat
      /\ \A k \in 1..Len(h) : (h \o s)[k] = h[k]
      /\ \A k \in 1..Len(s) : (h \o s)[Len(h) + k] = s[k]
  BY <1>1, Concatenated
<1>3. ASSUME NEW k \in 1..(Len(h \o s) - 1)
      PROVE  (h \o s)[k].task = "keep" \/ (h \o s)[k + 1].task = "keep"
  <2>1. CASE k \in 1..Len(r)
    BY <1>1, <1>2, <2>1
  <2>2. CASE k \notin 1..Len(r)
    <3>1. k = Len(h) /\ 1 \in 1..Len(s)
      BY <1>1, <1>2, <2>2
    <3> QED
      BY <1>1, <1>2, <3>1
  <2> QED
    BY <2>1, <2>2
<1> QED
  BY <1>2, <1>3 DEF Alternate, h

(* A common part, which may be empty.                                      *)
CommonPart(a1, a2, b1, b2) ==
  /\ a1 \in Nat /\ a2 \in Nat /\ b1 \in Nat /\ b2 \in Nat
  /\ a1 <= a2 /\ a2 <= Len(a) /\ b2 <= Len(b) /\ a2 - a1 = b2 - b1
  /\ \A k \in 0..(a2 - a1 - 1) : At(a, a1 + k) = At(b, b1 + k)

LEMMA CopiedFacts ==
  ASSUME NEW a1, NEW a2, NEW b1, NEW b2, CommonPart(a1, a2, b1, b2)
  PROVE  /\ Copied(a1, a2, b1, b2) \in Seq(Sound)
         /\ Chain(Copied(a1, a2, b1, b2), <<a1, b1>>, <<a2, b2>>)
         /\ Len(Copied(a1, a2, b1, b2)) <= 1
         /\ \A k \in 1..Len(Copied(a1, a2, b1, b2)) : Copied(a1, a2, b1, b2)[k].task = "keep"
<1> DEFINE r == Copied(a1, a2, b1, b2)
           g == Slice("keep", a1, a2, b1, b2)
<1>1. CASE a1 = a2
  <2>1. r = <<>> /\ b1 = b2
    BY <1>1 DEF Copied, CommonPart
  <2> HIDE DEF r
  <2>2. Len(r) = 0
    BY <2>1
  <2> QED
    BY <1>1, <2>1, <2>2, NoRegion DEF r
<1>2. CASE a1 # a2
  <2>1. r = <<g>>
    BY <1>2 DEF Copied
  <2>2. g = [task |-> "keep", a1 |-> a1, a2 |-> a2, b1 |-> b1, b2 |-> b2]
    BY DEF Slice
  <2> HIDE DEF r, g
  <2>3. g.task = "keep" /\ Start(g) = <<a1, b1>> /\ End(g) = <<a2, b2>>
    BY <2>2 DEF Start, End
  <2>4. g \in Region
    BY <2>2 DEF Region, Task, CommonPart
  <2>5. Width(g) = a2 - a1 /\ Height(g) = a2 - a1
    BY <2>2 DEF Width, Height, CommonPart
  <2>6. g \in Sound
    <3>1. \A k \in 0..(Width(g) - 1) : At(a, g.a1 + k) = At(b, g.b1 + k)
      BY <2>2, <2>5 DEF CommonPart
    <3>2. g.a1 <= g.a2 /\ g.a2 <= Len(a) /\ g.b1 <= g.b2 /\ g.b2 <= Len(b)
      BY <2>2 DEF CommonPart
    <3>3. Width(g) = Height(g) /\ Width(g) > 0
      BY <1>2, <2>5 DEF CommonPart
    <3> QED
      BY <2>4, <3>1, <3>2, <3>3 DEF Sound
  <2>7. /\ r \in Seq(Sound) /\ Len(r) = 1 /\ r[1] = g
        /\ Chain(r, <<a1, b1>>, <<a2, b2>>)
    BY <2>1, <2>3, <2>6, SingleRegion
  <2> QED
    BY <2>3, <2>7 DEF r
<1> QED
  BY <1>1, <1>2

-----------------------------------------------------------------------------
LEMMA PrefixFacts ==
  ASSUME NEW g, g.a1 \in Nat, g.a2 \in Nat, g.b1 \in Nat, g.b2 \in Nat,
         g.a1 <= g.a2, g.b1 <= g.b2
  PROVE  /\ Prefix(g) \in Nat /\ Prefix(g) <= Width(g) /\ Prefix(g) <= Height(g)
         /\ \A k \in 0..(Prefix(g) - 1) : At(a, g.a1 + k) = At(b, g.b1 + k)
<1> DEFINE m == Minimum(Width(g), Height(g))
           P(n) == /\ \A k \in 0..(n - 1) : At(a, g.a1 + k) = At(b, g.b1 + k)
                   /\ n < Width(g) /\ n < Height(g) => At(a, g.a1 + n) # At(b, g.b1 + n)
           S == {n \in 0..m : n = m \/ At(a, g.a1 + n) # At(b, g.b1 + n)}
<1>1. m \in Nat /\ m <= Width(g) /\ m <= Height(g) /\ Width(g) \in Nat /\ Height(g) \in Nat
      /\ (m = Width(g) \/ m = Height(g))
  BY DEF Minimum, Width, Height
<1>2. Prefix(g) = CHOOSE n \in 0..m : P(n)
  BY DEF Prefix
<1> HIDE DEF m
<1>3. PICK n \in S : \A l \in S : n <= l
  <2>1. m \in S /\ S \in SUBSET Nat
    BY <1>1
  <2> QED
    BY <2>1, LeastElement
<1>4. n \in 0..m /\ P(n)
  <2>1. ASSUME NEW k \in 0..(n - 1) PROVE At(a, g.a1 + k) = At(b, g.b1 + k)
    <3>1. k \in 0..m /\ k \notin S
      BY <1>1, <1>3
    <3> QED
      BY <3>1
  <2>2. n < Width(g) /\ n < Height(g) => At(a, g.a1 + n) # At(b, g.b1 + n)
    BY <1>1, <1>3
  <2> QED
    BY <1>3, <2>1, <2>2
<1>5. Prefix(g) \in 0..m /\ P(Prefix(g))
  <2> HIDE DEF P
  <2> QED
    BY <1>2, <1>4
<1> QED
  BY <1>1, <1>5

LEMMA SuffixFacts ==
  ASSUME NEW g, g.a1 \in Nat, g.a2 \in Nat, g.b1 \in Nat, g.b2 \in Nat,
         g.a1 <= g.a2, g.b1 <= g.b2,
         NEW p \in Nat, p <= Width(g), p <= Height(g)
  PROVE  /\ Suffix(g, p) \in Nat
         /\ Suffix(g, p) <= Width(g) - p /\ Suffix(g, p) <= Height(g) - p
         /\ \A k \in 0..(Suffix(g, p) - 1) : At(a, g.a2 - 1 - k) = At(b, g.b2 - 1 - k)
<1> DEFINE m == Minimum(Width(g), Height(g)) - p
           P(n) == /\ \A k \in 0..(n - 1) : At(a, g.a2 - 1 - k) = At(b, g.b2 - 1 - k)
                   /\ n < Width(g) - p /\ n < Height(g) - p => At(a, g.a2 - 1 - n) # At(b, g.b2 - 1 - n)
           S == {n \in 0..m : n = m \/ At(a, g.a2 - 1 - n) # At(b, g.b2 - 1 - n)}
<1>1. m \in Nat /\ m <= Width(g) - p /\ m <= Height(g) - p /\ Width(g) \in Nat /\ Height(g) \in Nat
      /\ (m = Width(g) - p \/ m = Height(g) - p)
  BY DEF Minimum, Width, Height
<1>2. Suffix(g, p) = CHOOSE n \in 0..m : P(n)
  BY DEF Suffix
<1> HIDE DEF m
<1>3. PICK n \in S : \A l \in S : n <= l
  <2>1. m \in S /\ S \in SUBSET Nat
    BY <1>1
  <2> QED
    BY <2>1, LeastElement
<1>4. n \in 0..m /\ P(n)
  <2>1. ASSUME NEW k \in 0..(n - 1) PROVE At(a, g.a2 - 1 - k) = At(b, g.b2 - 1 - k)
    <3>1. k \in 0..m /\ k \notin S
      BY <1>1, <1>3
    <3> QED
      BY <3>1
  <2>2. n < Width(g) - p /\ n < Height(g) - p => At(a, g.a2 - 1 - n) # At(b, g.b2 - 1 - n)
    BY <1>1, <1>3
  <2> QED
    BY <1>3, <2>1, <2>2
<1>5. Suffix(g, p) \in 0..m /\ P(Suffix(g, p))
  <2> HIDE DEF P
  <2> QED
    BY <1>2, <1>4
<1> QED
  BY <1>1, <1>5

(* What a common prefix and a common suffix leave.                         *)
LEMMA Trimmed ==
  ASSUME NEW x1 \in Nat, NEW x2 \in Nat, NEW y1 \in Nat, NEW y2 \in Nat, NEW p \in Nat, NEW q \in Nat,
         Len(a) \in Nat, Len(b) \in Nat, x1 <= x2, x2 <= Len(a), y1 <= y2, y2 <= Len(b),
         p <= x2 - x1, p <= y2 - y1, q <= x2 - x1 - p, q <= y2 - y1 - p,
         \A k \in 0..(p - 1) : At(a, x1 + k) = At(b, y1 + k),
         \A k \in 0..(q - 1) : At(a, x2 - 1 - k) = At(b, y2 - 1 - k)
  PROVE  /\ CommonPart(x1, x1 + p, y1, y1 + p)
         /\ CommonPart(x2 - q, x2, y2 - q, y2)
         /\ x1 + p <= x2 - q /\ y1 + p <= y2 - q
<1>1. ASSUME NEW k \in 0..(x2 - (x2 - q) - 1) PROVE At(a, (x2 - q) + k) = At(b, (y2 - q) + k)
  <2> DEFINE l == q - 1 - k
  <2>1. l \in 0..(q - 1) /\ (x2 - q) + k = x2 - 1 - l /\ (y2 - q) + k = y2 - 1 - l
    OBVIOUS
  <2> HIDE DEF l
  <2> QED
    BY <2>1
<1>2. CommonPart(x2 - q, x2, y2 - q, y2)
  BY <1>1 DEF CommonPart
<1>3. CommonPart(x1, x1 + p, y1, y1 + p)
  BY DEF CommonPart
<1> QED
  BY <1>2, <1>3

LEMMA TrimKeeps ==
  ASSUME IInv, Trim
  PROVE  IInv'
<1> DEFINE p == Prefix(Top)
           q == Suffix(Top, p)
           mid == Slice("lcs", Top.a1 + p, Top.a2 - q, Top.b1 + p, Top.b2 - q)
           g == IF Width(mid) * Height(mid) <= maxLCSCells THEN mid ELSE [mid EXCEPT !.task = "anchored"]
           r == Copied(Top.a1, Top.a1 + p, Top.b1, Top.b1 + p)
           s == Copied(Top.a2 - q, Top.a2, Top.b2 - q, Top.b2)
<1>1. /\ todo # <<>> /\ Top.task = "diff" /\ Push(r \o <<g>> \o s)
      /\ UNCHANGED <<input, edits, lines, oi, ni>>
  BY DEF Trim, Pending
<1>2. /\ Top \in Sound /\ Top.a1 \in Nat /\ Top.a2 \in Nat /\ Top.b1 \in Nat /\ Top.b2 \in Nat
      /\ Top.a1 <= Top.a2 /\ Top.a2 <= Len(a) /\ Top.b1 <= Top.b2 /\ Top.b2 <= Len(b)
      /\ Len(a) \in Nat /\ Len(b) \in Nat
  BY <1>1, TopFacts
<1>3. /\ p \in Nat /\ p <= Width(Top) /\ p <= Height(Top)
      /\ \A k \in 0..(p - 1) : At(a, Top.a1 + k) = At(b, Top.b1 + k)
  BY <1>2, PrefixFacts
<1>4. /\ q \in Nat /\ q <= Width(Top) - p /\ q <= Height(Top) - p
      /\ \A k \in 0..(q - 1) : At(a, Top.a2 - 1 - k) = At(b, Top.b2 - 1 - k)
  <2> HIDE DEF p
  <2> QED
    BY <1>2, <1>3, SuffixFacts
<1>5. g = [task |-> g.task, a1 |-> Top.a1 + p, a2 |-> Top.a2 - q, b1 |-> Top.b1 + p, b2 |-> Top.b2 - q]
      /\ g.task \in {"lcs", "anchored"}
  <2> HIDE DEF p, q
  <2> QED
    BY DEF Slice
<1> DEFINE x1 == Top.a1
           x2 == Top.a2
           y1 == Top.b1
           y2 == Top.b2
<1>6. /\ CommonPart(x1, x1 + p, y1, y1 + p)
      /\ CommonPart(x2 - q, x2, y2 - q, y2)
      /\ x1 + p <= x2 - q /\ y1 + p <= y2 - q
  <2>1. /\ x1 \in Nat /\ x2 \in Nat /\ y1 \in Nat /\ y2 \in Nat /\ p \in Nat /\ q \in Nat
        /\ x1 <= x2 /\ x2 <= Len(a) /\ y1 <= y2 /\ y2 <= Len(b) /\ Len(a) \in Nat /\ Len(b) \in Nat
        /\ p <= x2 - x1 /\ p <= y2 - y1 /\ q <= x2 - x1 - p /\ q <= y2 - y1 - p
        /\ \A k \in 0..(p - 1) : At(a, x1 + k) = At(b, y1 + k)
        /\ \A k \in 0..(q - 1) : At(a, x2 - 1 - k) = At(b, y2 - 1 - k)
    <3> HIDE DEF p, q
    <3> QED
      BY <1>2, <1>3, <1>4 DEF Width, Height
  <2> HIDE DEF x1, x2, y1, y2, p, q
  <2> QED
    BY <2>1, Trimmed
<1>7. Start(Top) = <<x1, y1>> /\ End(Top) = <<x2, y2>>
  BY DEF Start, End
<1>8. r = Copied(x1, x1 + p, y1, y1 + p) /\ s = Copied(x2 - q, x2, y2 - q, y2)
  OBVIOUS
<1>9. g = [task |-> g.task, a1 |-> x1 + p, a2 |-> x2 - q, b1 |-> y1 + p, b2 |-> y2 - q]
  BY <1>5
<1> HIDE DEF x1, x2, y1, y2, p, q, r, s, g
<1>10. /\ r \in Seq(Sound) /\ Len(r) <= 1 /\ \A k \in 1..Len(r) : r[k].task = "keep"
       /\ Chain(r, Start(Top), <<x1 + p, y1 + p>>)
  BY <1>6, <1>7, <1>8, CopiedFacts
<1>11. /\ s \in Seq(Sound) /\ Len(s) <= 1 /\ \A k \in 1..Len(s) : s[k].task = "keep"
       /\ Chain(s, <<x2 - q, y2 - q>>, End(Top))
  BY <1>6, <1>7, <1>8, CopiedFacts
<1>12. g \in Sound /\ Start(g) = <<x1 + p, y1 + p>> /\ End(g) = <<x2 - q, y2 - q>>
  <2>1. /\ x1 + p \in Nat /\ x2 - q \in Nat /\ y1 + p \in Nat /\ y2 - q \in Nat
        /\ x2 - q <= Len(a) /\ y2 - q <= Len(b)
    <3>1. /\ x1 + p \in Nat /\ x2 - q \in Nat /\ y1 + p \in Nat /\ y2 - q \in Nat
      BY <1>6 DEF CommonPart
    <3>2. x2 \in Nat /\ y2 \in Nat /\ x2 <= Len(a) /\ y2 <= Len(b) /\ Len(a) \in Nat /\ Len(b) \in Nat
      BY <1>2 DEF x2, y2
    <3>3. q \in Nat
      BY <1>4
    <3> QED
      BY <3>1, <3>2, <3>3
  <2>2. g \in Region
    BY <1>5, <1>9, <2>1 DEF Region, Task
  <2> QED
    BY <1>5, <1>6, <1>9, <2>1, <2>2 DEF Sound, Start, End
<1>13. (r \o <<g>>) \o s \in Seq(Sound) /\ Alternate((r \o <<g>>) \o s)
  BY <1>10, <1>11, <1>12, AlternateAround
<1>14. Chain((r \o <<g>>) \o s, Start(Top), End(Top))
  <2>1. Chain(<<g>>, <<x1 + p, y1 + p>>, <<x2 - q, y2 - q>>) /\ <<g>> \in Seq(Sound)
    BY <1>12, SingleRegion
  <2>2. Chain(r \o <<g>>, Start(Top), <<x2 - q, y2 - q>>) /\ r \o <<g>> \in Seq(Sound)
    BY <1>10, <2>1, ChainConcat, Concatenated
  <2> QED
    BY <1>11, <2>2, ChainConcat
<1>15. Top.task # "keep"
  BY <1>1
<1> QED
  BY <1>1, <1>13, <1>14, <1>15, RearrangeKeeps

LEMMA KeepKeeps ==
  ASSUME IInv, Keep
  PROVE  IInv'
<1> DEFINE ts == Edits("equal", a, Top.a1, Top.a2)
<1>1. /\ todo # <<>> /\ Top.task = "keep" /\ Push(<<>>) /\ edits' = edits \o ts
      /\ UNCHANGED <<input, lines, oi, ni>>
  BY DEF Keep, Pending
<1>2. /\ Top \in Sound /\ Top.a1 \in Nat /\ Top.a2 \in Nat /\ Top.b1 \in Nat /\ Top.b2 \in Nat
      /\ Top.a1 <= Top.a2 /\ Top.a2 <= Len(a) /\ a \in Seq(Text) /\ edits \in Seq(Edit)
      /\ Reaches(edits, a, "insert", Top.a1)
      /\ Reaches(edits, b, "delete", Top.b1)
  BY <1>1, TopFacts
<1>3. /\ Top.a2 - Top.a1 = Top.b2 - Top.b1
      /\ \A n \in 0..(Top.a2 - Top.a1 - 1) : At(a, Top.a1 + n) = At(b, Top.b1 + n)
  BY <1>1, <1>2 DEF Sound, Width, Height
<1>4. /\ ts \in Seq(Edit) /\ Len(ts) = Top.a2 - Top.a1
      /\ \A k \in 1..(Top.a2 - Top.a1) : ts[k].op = "equal" /\ ts[k].text = At(a, Top.a1 + (k - 1))
  <2>1. "equal" \in Op
    BY DEF Op
  <2>2. Shows(ts, "equal", a, Top.a1, Top.a2)
    BY <1>2, <2>1, EditsBlock
  <2> QED
    BY <2>2 DEF Shows
<1> HIDE DEF ts
<1>5. Block(ts, "equal", a, "insert", Top.a1)
  BY <1>4 DEF Block
<1>6. Block(ts, "equal", b, "delete", Top.b1)
  <2>1. ASSUME NEW k \in 1..(Top.a2 - Top.a1) PROVE ts[k].text = At(b, Top.b1 + (k - 1))
    <3>1. k - 1 \in 0..(Top.a2 - Top.a1 - 1)
      BY <1>2
    <3> QED
      BY <1>3, <1>4, <3>1
  <2> QED
    BY <1>4, <2>1 DEF Block
<1>7. Reaches(edits \o ts, a, "insert", Top.a2)
  <2>1. Reaches(edits \o ts, a, "insert", Top.a1 + Len(ts))
    BY <1>2, <1>4, <1>5, ExtendCounts
  <2>2. Top.a1 + Len(ts) = Top.a2
    BY <1>2, <1>4
  <2> QED
    BY <2>1, <2>2
<1>8. Reaches(edits \o ts, b, "delete", Top.b2)
  <2>1. Reaches(edits \o ts, b, "delete", Top.b1 + Len(ts))
    BY <1>2, <1>4, <1>6, ExtendCounts
  <2>2. Top.b1 + Len(ts) = Top.b2
    BY <1>2, <1>3, <1>4
  <2> QED
    BY <2>1, <2>2
<1>9. edits' \in Seq(Edit)
  BY <1>1, <1>2, <1>4, Concatenated
<1>10. Chain(<<>>, <<Top.a2, Top.b2>>, End(Top))
  BY NoRegion DEF End
<1> QED
  BY <1>1, <1>7, <1>8, <1>9, <1>10, NoRegion, StepKeeps

LEMMA ReplaceKeeps ==
  ASSUME IInv, Replace
  PROVE  IInv'
<1> DEFINE ds == Edits("delete", a, Top.a1, Top.a2)
           is == Edits("insert", b, Top.b1, Top.b2)
<1>1. /\ todo # <<>> /\ Top.task = "replace" /\ Push(<<>>) /\ edits' = (edits \o ds) \o is
      /\ UNCHANGED <<input, lines, oi, ni>>
  BY DEF Replace, Pending
<1>2. /\ Top \in Sound /\ Top.a1 \in Nat /\ Top.a2 \in Nat /\ Top.b1 \in Nat /\ Top.b2 \in Nat
      /\ Top.a1 <= Top.a2 /\ Top.a2 <= Len(a) /\ Top.b1 <= Top.b2 /\ Top.b2 <= Len(b)
      /\ a \in Seq(Text) /\ b \in Seq(Text) /\ edits \in Seq(Edit)
      /\ Reaches(edits, a, "insert", Top.a1)
      /\ Reaches(edits, b, "delete", Top.b1)
  BY <1>1, TopFacts
<1>3. /\ ds \in Seq(Edit) /\ Len(ds) = Top.a2 - Top.a1
      /\ \A k \in 1..(Top.a2 - Top.a1) : ds[k].op = "delete" /\ ds[k].text = At(a, Top.a1 + (k - 1))
  <2>1. "delete" \in Op
    BY DEF Op
  <2>2. Shows(ds, "delete", a, Top.a1, Top.a2)
    BY <1>2, <2>1, EditsBlock
  <2> QED
    BY <2>2 DEF Shows
<1>4. /\ is \in Seq(Edit) /\ Len(is) = Top.b2 - Top.b1
      /\ \A k \in 1..(Top.b2 - Top.b1) : is[k].op = "insert" /\ is[k].text = At(b, Top.b1 + (k - 1))
  <2>1. "insert" \in Op
    BY DEF Op
  <2>2. Shows(is, "insert", b, Top.b1, Top.b2)
    BY <1>2, <2>1, EditsBlock
  <2> QED
    BY <2>2 DEF Shows
<1> HIDE DEF ds, is
<1>5. /\ Block(ds, "delete", a, "insert", Top.a1) /\ Block(ds, "delete", b, "delete", Top.b1)
      /\ Block(is, "insert", a, "insert", Top.a2) /\ Block(is, "insert", b, "delete", Top.b1)
  BY <1>3, <1>4 DEF Block
<1>6. /\ edits \o ds \in Seq(Edit) /\ edits' \in Seq(Edit)
  BY <1>1, <1>2, <1>3, <1>4, Concatenated
<1>7. /\ Reaches(edits \o ds, a, "insert", Top.a1 + Len(ds))
      /\ Reaches(edits \o ds, b, "delete", Top.b1)
  BY <1>2, <1>3, <1>5, ExtendCounts
<1>8. Top.a1 + Len(ds) = Top.a2 /\ Top.b1 + Len(is) = Top.b2
  BY <1>2, <1>3, <1>4
<1>9. /\ Reaches((edits \o ds) \o is, a, "insert", Top.a2)
      /\ Reaches((edits \o ds) \o is, b, "delete", Top.b1 + Len(is))
  BY <1>4, <1>5, <1>6, <1>7, <1>8, ExtendCounts
<1>10. Chain(<<>>, <<Top.a2, Top.b2>>, End(Top))
  BY NoRegion DEF End
<1> QED
  BY <1>1, <1>6, <1>8, <1>9, <1>10, NoRegion, StepKeeps

LEMMA FlushKeeps ==
  ASSUME IInv, Flush
  PROVE  IInv'
<1> DEFINE g == [Top EXCEPT !.task = "replace"]
<1>1. /\ todo # <<>> /\ Top.task = "lcs" /\ Push(<<g>>)
      /\ UNCHANGED <<input, edits, lines, oi, ni>>
  BY DEF Flush, Pending
<1>2. Top \in Sound
  BY <1>1, TopFacts
<1>3. g \in Sound /\ Start(g) = Start(Top) /\ End(g) = End(Top)
  BY <1>2 DEF Sound, Region, Task, Start, End
<1> HIDE DEF g
<1>4. <<g>> \in Seq(Sound) /\ Alternate(<<g>>) /\ Chain(<<g>>, Start(Top), End(Top))
  BY <1>3, SingleRegion
<1>5. Top.task # "keep"
  BY <1>1
<1> QED
  BY <1>1, <1>4, <1>5, RearrangeKeeps

LEMMA EmitKeeps ==
  ASSUME IInv, todo # <<>>, Top.task = "lcs", NEW op \in Op, NEW text \in Text, Emit(op, text),
         op # "insert" => text = At(a, Top.a1), op # "delete" => text = At(b, Top.b1),
         NEW g \in Sound, Push(<<g>>), End(g) = End(Top),
         Start(g) = <<IF op = "insert" THEN Top.a1 ELSE Top.a1 + 1,
                      IF op = "delete" THEN Top.b1 ELSE Top.b1 + 1>>,
         UNCHANGED <<input, lines, oi, ni>>
  PROVE  IInv'
<1> DEFINE e == [op |-> op, text |-> text]
<1>1. /\ edits \in Seq(Edit)
      /\ Reaches(edits, a, "insert", Top.a1)
      /\ Reaches(edits, b, "delete", Top.b1)
      /\ Top.a1 \in Nat /\ Top.b1 \in Nat
  BY TopFacts
<1>2. e \in Edit /\ e.op = op /\ e.text = text /\ edits' = Append(edits, e)
  BY DEF Edit, Emit
<1> HIDE DEF e
<1>3. <<e>> \in Seq(Edit) /\ Len(<<e>>) = 1 /\ <<e>>[1] = e
  BY <1>2
<1>4. edits' = edits \o <<e>> /\ edits' \in Seq(Edit)
  BY <1>1, <1>2, <1>3, AppendIsConcat, Concatenated
<1>5. Block(<<e>>, op, a, "insert", Top.a1) /\ Block(<<e>>, op, b, "delete", Top.b1)
  <2>1. \A k \in 1..Len(<<e>>) : k = 1
    BY <1>3
  <2>2. Top.a1 + (1 - 1) = Top.a1 /\ Top.b1 + (1 - 1) = Top.b1
    BY <1>1
  <2> QED
    BY <1>2, <1>3, <2>1, <2>2 DEF Block
<1>6. /\ Reaches(edits', a, "insert", IF op = "insert" THEN Top.a1 ELSE Top.a1 + Len(<<e>>))
      /\ Reaches(edits', b, "delete", IF op = "delete" THEN Top.b1 ELSE Top.b1 + Len(<<e>>))
  BY <1>1, <1>3, <1>4, <1>5, ExtendCounts
<1> DEFINE p == IF op = "insert" THEN Top.a1 ELSE Top.a1 + 1
           q == IF op = "delete" THEN Top.b1 ELSE Top.b1 + 1
<1>7. Reaches(edits', a, "insert", p) /\ Reaches(edits', b, "delete", q)
  BY <1>3, <1>6
<1>8. Start(g) = <<p, q>>
  OBVIOUS
<1> HIDE DEF p, q
<1>9. <<g>> \in Seq(Sound) /\ Alternate(<<g>>) /\ Chain(<<g>>, <<p, q>>, End(Top))
  BY <1>8, SingleRegion
<1>10. Top.task # "keep"
  OBVIOUS
<1> QED
  BY <1>4, <1>7, <1>9, <1>10, StepKeeps

LEMMA WalkKeeps ==
  ASSUME IInv, Walk
  PROVE  IInv'
<1>1. /\ todo # <<>> /\ Top.task = "lcs" /\ Width(Top) > 0 /\ Height(Top) > 0
      /\ UNCHANGED <<input, lines, oi, ni>>
  BY DEF Walk, Pending
<1>2. /\ Top \in Sound /\ Top.a1 \in Nat /\ Top.a2 \in Nat /\ Top.b1 \in Nat /\ Top.b2 \in Nat
      /\ Top.a2 <= Len(a) /\ Top.b2 <= Len(b) /\ Len(a) \in Nat /\ Len(b) \in Nat
      /\ a \in Seq(Text) /\ b \in Seq(Text)
  BY <1>1, TopFacts
<1>3. Top.a1 < Top.a2 /\ Top.b1 < Top.b2
  BY <1>1, <1>2 DEF Width, Height
<1>4. At(a, Top.a1) \in Text /\ At(b, Top.b1) \in Text
  <2>1. Top.a1 + 1 \in 1..Len(a) /\ Top.b1 + 1 \in 1..Len(b)
    BY <1>2, <1>3
  <2> QED
    BY <1>2, <2>1, ElementOfSeq DEF At
<1>5. /\ Top = [task |-> Top.task, a1 |-> Top.a1, a2 |-> Top.a2, b1 |-> Top.b1, b2 |-> Top.b2]
      /\ Top.a1 + 1 \in Nat /\ Top.a1 + 1 <= Top.a2 /\ Top.b1 + 1 \in Nat /\ Top.b1 + 1 <= Top.b2
      /\ Top.a1 <= Top.a2 /\ Top.b1 <= Top.b2
  BY <1>2, <1>3 DEF Sound, Region
<1> DEFINE G(x, y) == [task |-> "lcs", a1 |-> x, a2 |-> Top.a2, b1 |-> y, b2 |-> Top.b2]
<1>6. ASSUME NEW x \in {Top.a1, Top.a1 + 1}, NEW y \in {Top.b1, Top.b1 + 1}
      PROVE  G(x, y) \in Sound /\ End(G(x, y)) = End(Top) /\ Start(G(x, y)) = <<x, y>>
  <2>1. G(x, y) \in Region
    BY <1>2, <1>5 DEF Region, Task
  <2>2. x <= Top.a2 /\ y <= Top.b2
    BY <1>5
  <2>3. G(x, y) \in Sound
    BY <1>2, <2>1, <2>2 DEF Sound
  <2>4. End(G(x, y)) = End(Top) /\ Start(G(x, y)) = <<x, y>>
    BY DEF Start, End
  <2> QED
    BY <2>3, <2>4
<1>7. CASE /\ At(a, Top.a1) = At(b, Top.b1) /\ Emit("equal", At(a, Top.a1))
           /\ Push(<<Slice("lcs", Top.a1 + 1, Top.a2, Top.b1 + 1, Top.b2)>>)
  <2>1. Slice("lcs", Top.a1 + 1, Top.a2, Top.b1 + 1, Top.b2) = G(Top.a1 + 1, Top.b1 + 1)
    BY DEF Slice
  <2> DEFINE g == G(Top.a1 + 1, Top.b1 + 1)
  <2>2. /\ g \in Sound /\ End(g) = End(Top) /\ Start(g) = <<Top.a1 + 1, Top.b1 + 1>>
        /\ Push(<<g>>)
    BY <1>6, <1>7, <2>1
  <2> HIDE DEF g
  <2> QED
    BY <1>1, <1>4, <1>7, <2>2, EmitKeeps DEF Op
<1>8. CASE Emit("delete", At(a, Top.a1)) /\ Push(<<[Top EXCEPT !.a1 = @ + 1]>>)
  <2>1. [Top EXCEPT !.a1 = @ + 1] = G(Top.a1 + 1, Top.b1)
    BY <1>1, <1>5
  <2> DEFINE g == G(Top.a1 + 1, Top.b1)
  <2>2. /\ g \in Sound /\ End(g) = End(Top) /\ Start(g) = <<Top.a1 + 1, Top.b1>>
        /\ Push(<<g>>)
    BY <1>6, <1>8, <2>1
  <2> HIDE DEF g
  <2> QED
    BY <1>1, <1>4, <1>8, <2>2, EmitKeeps DEF Op
<1>9. CASE Emit("insert", At(b, Top.b1)) /\ Push(<<[Top EXCEPT !.b1 = @ + 1]>>)
  <2>1. [Top EXCEPT !.b1 = @ + 1] = G(Top.a1, Top.b1 + 1)
    BY <1>1, <1>5
  <2> DEFINE g == G(Top.a1, Top.b1 + 1)
  <2>2. /\ g \in Sound /\ End(g) = End(Top) /\ Start(g) = <<Top.a1, Top.b1 + 1>>
        /\ Push(<<g>>)
    BY <1>6, <1>9, <2>1
  <2> HIDE DEF g
  <2> QED
    BY <1>1, <1>4, <1>9, <2>2, EmitKeeps DEF Op
<1> QED
  BY <1>7, <1>8, <1>9 DEF Walk

-----------------------------------------------------------------------------
(* Anchors, in the order of both sides.  The element of rank k is the one  *)
(* with k - 1 elements before it.                                          *)
Before(cs, x) == {d \in cs : d[1] < x}

LEMMA BeforeFacts ==
  ASSUME NEW cs \in SUBSET (Nat \X Nat), IsFiniteSet(cs)
  PROVE  /\ \A x : IsFiniteSet(Before(cs, x)) /\ Cardinality(Before(cs, x)) \in Nat
         /\ \A x, y \in Nat : x <= y => Cardinality(Before(cs, x)) <= Cardinality(Before(cs, y))
<1>1. ASSUME NEW x PROVE IsFiniteSet(Before(cs, x)) /\ Cardinality(Before(cs, x)) \in Nat
  <2>1. Before(cs, x) \subseteq cs
    BY DEF Before
  <2> QED
    BY <2>1, FS_Subset, FS_CardinalityType
<1>2. ASSUME NEW x \in Nat, NEW y \in Nat, x <= y PROVE Cardinality(Before(cs, x)) <= Cardinality(Before(cs, y))
  <2>1. Before(cs, x) \subseteq Before(cs, y)
    BY <1>2 DEF Before
  <2> QED
    BY <1>1, <2>1, FS_Subset
<1> QED
  BY <1>1, <1>2

LEMMA RankedExists ==
  ASSUME NEW cs \in SUBSET (Nat \X Nat), IsFiniteSet(cs), InOrder(cs),
         \A c, d \in cs : c[1] = d[1] => c = d,
         NEW m \in Nat, \A c \in cs : c[1] < m,
         NEW n \in 1..Cardinality(cs)
  PROVE  \E c \in cs : Cardinality({d \in cs : d[1] < c[1]}) = n - 1
<1> DEFINE R(x) == Cardinality(Before(cs, x))
           S == {x \in Nat : R(x) >= n}
<1>1. \A x : IsFiniteSet(Before(cs, x)) /\ R(x) \in Nat
  BY BeforeFacts
<1>2. PICK x \in S : \A y \in S : x <= y
  <2>1. S # {}
    <3>1. Before(cs, m) = cs
      BY DEF Before
    <3>2. Cardinality(cs) \in Nat
      BY FS_CardinalityType
    <3> QED
      BY <3>1, <3>2
  <2>2. S \in SUBSET Nat
    OBVIOUS
  <2> QED
    BY <2>1, <2>2, LeastElement
<1>3. R(0) = 0
  <2>1. Before(cs, 0) = {}
    BY DEF Before
  <2> QED
    BY <2>1, FS_EmptySet
<1>4. x > 0 /\ x - 1 \in Nat /\ R(x - 1) <= n - 1 /\ R(x) >= n
  <2>1. R(x) >= n /\ x \in Nat
    BY <1>2
  <2>2. x # 0
    BY <2>1, <1>3
  <2>3. x - 1 \in Nat /\ x - 1 \notin S
    BY <1>2, <2>1, <2>2
  <2> QED
    BY <1>1, <2>1, <2>2, <2>3
<1>5. \E c \in cs : c[1] = x - 1
  <2>1. SUFFICES ASSUME \A c \in cs : c[1] # x - 1 PROVE FALSE
    OBVIOUS
  <2>2. Before(cs, x) = Before(cs, x - 1)
    <3>1. ASSUME NEW d \in cs PROVE d[1] < x <=> d[1] < x - 1
      BY <1>4, <2>1
    <3> QED
      BY <3>1 DEF Before
  <2> QED
    BY <1>1, <1>4, <2>2
<1>6. PICK c \in cs : c[1] = x - 1
  BY <1>5
<1>7. R(x) <= R(x - 1) + 1
  <2>1. Before(cs, x) = Before(cs, x - 1) \cup {c}
    <3>1. ASSUME NEW d \in cs PROVE d[1] < x <=> d[1] < x - 1 \/ d = c
      BY <1>4, <1>6
    <3> QED
      BY <3>1, <1>6 DEF Before
  <2>2. /\ IsFiniteSet(Before(cs, x - 1)) /\ Cardinality(Before(cs, x - 1)) \in Nat
    BY <1>1
  <2> DEFINE B == Before(cs, x - 1)
  <2>3. Cardinality(B \cup {c}) = IF c \in B THEN Cardinality(B) ELSE Cardinality(B) + 1
    <3> HIDE DEF B
    <3>1. IsFiniteSet(B)
      BY <2>2 DEF B
    <3> QED
      BY <3>1, FS_AddElement
  <2>4. Cardinality(B \cup {c}) <= Cardinality(B) + 1
    <3> HIDE DEF B
    <3>1. Cardinality(B) \in Nat
      BY <2>2 DEF B
    <3> QED
      BY <2>3, <3>1
  <2> QED
    BY <2>1, <2>4
<1>8. R(x - 1) = n - 1
  BY <1>1, <1>4, <1>7
<1> QED
  BY <1>6, <1>8 DEF Before

(* The anchor of each rank, and that they lie in the order of both sides.  *)
LEMMA AnchorOrder ==
  ASSUME NEW g \in Sound, NEW cs \in Anchors(g), Len(a) \in Nat, Len(b) \in Nat
  PROVE  /\ IsFiniteSet(cs) /\ Cardinality(cs) \in Nat
         /\ \A k \in 1..Cardinality(cs) :
              LET c == Ranked(cs, k)
              IN  /\ c[1] \in Nat /\ c[2] \in Nat
                  /\ g.a1 <= c[1] /\ c[1] < g.a2 /\ g.b1 <= c[2] /\ c[2] < g.b2
                  /\ At(a, c[1]) = At(b, c[2])
         /\ \A k, l \in 1..Cardinality(cs) : k < l =>
              /\ Ranked(cs, k)[1] < Ranked(cs, l)[1]
              /\ Ranked(cs, k)[2] < Ranked(cs, l)[2]
<1> DEFINE R(x) == Cardinality(Before(cs, x))
<1>1. g.a1 \in Nat /\ g.a2 \in Nat /\ g.b1 \in Nat /\ g.b2 \in Nat
  BY DEF Sound, Region
<1>2. cs \subseteq Candidates(g) /\ InOrder(cs)
  BY DEF Anchors
<1>3. Candidates(g) \subseteq (g.a1..(g.a2 - 1)) \X (g.b1..(g.b2 - 1))
  BY DEF Candidates
<1>4. IsFiniteSet(cs) /\ Cardinality(cs) \in Nat /\ cs \in SUBSET (Nat \X Nat)
  <2>1. IsFiniteSet((g.a1..(g.a2 - 1)) \X (g.b1..(g.b2 - 1)))
    <3>1. g.a1 \in Int /\ g.a2 - 1 \in Int /\ g.b1 \in Int /\ g.b2 - 1 \in Int
      BY <1>1
    <3>2. IsFiniteSet(g.a1..(g.a2 - 1)) /\ IsFiniteSet(g.b1..(g.b2 - 1))
      BY <3>1, FS_Interval
    <3> QED
      BY <3>2, FS_Product
  <2>2. IsFiniteSet(cs)
    BY <1>2, <1>3, <2>1, FS_Subset
  <2>3. cs \in SUBSET (Nat \X Nat)
    BY <1>1, <1>2, <1>3
  <2> QED
    BY <2>2, <2>3, FS_CardinalityType
<1>5. ASSUME NEW c \in cs
      PROVE  /\ c[1] \in Nat /\ c[2] \in Nat
             /\ g.a1 <= c[1] /\ c[1] < g.a2 /\ g.b1 <= c[2] /\ c[2] < g.b2
             /\ At(a, c[1]) = At(b, c[2])
  <2>1. c \in (g.a1..(g.a2 - 1)) \X (g.b1..(g.b2 - 1)) /\ At(a, c[1]) = At(b, c[2])
    BY <1>2 DEF Candidates
  <2>2. c[1] \in g.a1..(g.a2 - 1) /\ c[2] \in g.b1..(g.b2 - 1)
    BY <2>1
  <2> QED
    BY <1>1, <2>1, <2>2
<1>6. ASSUME NEW c \in cs, NEW d \in cs, c[1] = d[1] PROVE c = d
  <2>1. c[2] \in g.b1..(g.b2 - 1) /\ d[2] \in g.b1..(g.b2 - 1)
    BY <1>1, <1>5
  <2>2. At(b, c[2]) = At(b, d[2])
    BY <1>5, <1>6
  <2>3. OnceIn(b, g.b1, g.b2, d[2])
    BY <1>2 DEF Candidates
  <2>4. c[2] = d[2]
    BY <2>1, <2>2, <2>3 DEF OnceIn
  <2>5. c \in Nat \X Nat /\ d \in Nat \X Nat
    BY <1>4
  <2> QED
    BY <1>6, <2>4, <2>5
<1>7. ASSUME NEW k \in 1..Cardinality(cs)
      PROVE  Ranked(cs, k) \in cs /\ R(Ranked(cs, k)[1]) = k - 1
  <2>1. \E c \in cs : Cardinality({d \in cs : d[1] < c[1]}) = k - 1
    <3>1. \A c \in cs : c[1] < g.a2
      BY <1>5
    <3>2. \A c, d \in cs : c[1] = d[1] => c = d
      BY <1>6
    <3> QED
      BY <1>1, <1>2, <1>4, <3>1, <3>2, RankedExists
  <2>2. Ranked(cs, k) \in cs /\ Cardinality({d \in cs : d[1] < Ranked(cs, k)[1]}) = k - 1
    BY <2>1 DEF Ranked
  <2> QED
    BY <2>2 DEF Before
<1>8. ASSUME NEW k \in 1..Cardinality(cs), NEW l \in 1..Cardinality(cs), k < l
      PROVE  /\ Ranked(cs, k)[1] < Ranked(cs, l)[1]
             /\ Ranked(cs, k)[2] < Ranked(cs, l)[2]
  <2> DEFINE c == Ranked(cs, k)
             d == Ranked(cs, l)
  <2>1. c \in cs /\ d \in cs /\ R(c[1]) = k - 1 /\ R(d[1]) = l - 1
    BY <1>7
  <2> HIDE DEF c, d
  <2>2. c[1] \in Nat /\ d[1] \in Nat
    BY <1>5, <2>1
  <2>3. d[1] <= c[1] => R(d[1]) <= R(c[1])
    BY <1>4, <2>2, BeforeFacts
  <2>4. c[1] < d[1]
    BY <1>8, <2>1, <2>2, <2>3
  <2>5. c[2] < d[2]
    BY <1>2, <2>1, <2>4 DEF InOrder
  <2> QED
    BY <2>4, <2>5 DEF c, d
<1> QED
  BY <1>4, <1>5, <1>7, <1>8

(* The gaps and the anchors in a row fill the region.                      *)
LEMMA GapsFacts ==
  ASSUME NEW g \in Sound, NEW cs \in Anchors(g), Len(a) \in Nat, Len(b) \in Nat
  PROVE  /\ Gaps(g, cs) \in Seq(Sound)
         /\ Chain(Gaps(g, cs), Start(g), End(g))
         /\ Alternate(Gaps(g, cs))
<1> DEFINE n == Cardinality(cs)
           end(k) == IF k > n THEN <<g.a2, g.b2>> ELSE Ranked(cs, k)
           start(k) == IF k = 1 THEN <<g.a1, g.b1>> ELSE <<Ranked(cs, k - 1)[1] + 1, Ranked(cs, k - 1)[2] + 1>>
           gap(k) == Slice("diff", start(k)[1], end(k)[1], start(k)[2], end(k)[2])
           anchor(k) == Slice("keep", end(k)[1], end(k)[1] + 1, end(k)[2], end(k)[2] + 1)
           r == [k \in 1..(2 * n + 1) |-> IF k % 2 = 1 THEN gap((k + 1) \div 2) ELSE anchor(k \div 2)]
<1>1. Gaps(g, cs) = r
  BY DEF Gaps
<1>2. /\ g.a1 \in Nat /\ g.a2 \in Nat /\ g.b1 \in Nat /\ g.b2 \in Nat
      /\ g.a1 <= g.a2 /\ g.a2 <= Len(a) /\ g.b1 <= g.b2 /\ g.b2 <= Len(b)
  BY DEF Sound, Region
<1>3. /\ n \in Nat
      /\ \A k \in 1..n : /\ Ranked(cs, k)[1] \in Nat /\ Ranked(cs, k)[2] \in Nat
                         /\ g.a1 <= Ranked(cs, k)[1] /\ Ranked(cs, k)[1] < g.a2
                         /\ g.b1 <= Ranked(cs, k)[2] /\ Ranked(cs, k)[2] < g.b2
                         /\ At(a, Ranked(cs, k)[1]) = At(b, Ranked(cs, k)[2])
      /\ \A k, l \in 1..n : k < l => /\ Ranked(cs, k)[1] < Ranked(cs, l)[1]
                                     /\ Ranked(cs, k)[2] < Ranked(cs, l)[2]
  BY AnchorOrder
<1> HIDE DEF n
<1>4. ASSUME NEW k \in 1..(n + 1)
      PROVE  /\ start(k)[1] \in Nat /\ start(k)[2] \in Nat /\ end(k)[1] \in Nat /\ end(k)[2] \in Nat
             /\ start(k)[1] <= end(k)[1] /\ end(k)[1] <= g.a2
             /\ start(k)[2] <= end(k)[2] /\ end(k)[2] <= g.b2
             /\ start(1) = Start(g) /\ end(n + 1) = End(g)
  <2>1. start(1) = Start(g) /\ end(n + 1) = End(g)
    BY <1>3 DEF Start, End
  <2>2. k = n + 1 \/ k \in 1..n
    BY <1>3
  <2>3. k = 1 \/ k - 1 \in 1..n
    BY <1>3
  <2>4. CASE k = n + 1 /\ k = 1
    <3>1. k > n
      BY <1>3, <2>4
    <3>2. end(k) = <<g.a2, g.b2>> /\ start(k) = <<g.a1, g.b1>>
      BY <2>4, <3>1
    <3> HIDE DEF start, end
    <3> QED
      BY <1>2, <2>1, <3>2
  <2>5. CASE k = n + 1 /\ k - 1 \in 1..n
    <3>1. Ranked(cs, k - 1)[1] + 1 <= g.a2 /\ Ranked(cs, k - 1)[2] + 1 <= g.b2
      BY <1>2, <1>3, <2>5
    <3>2. k > n /\ k # 1
      BY <1>3, <2>5
    <3> QED
      BY <1>2, <1>3, <2>1, <2>5, <3>1, <3>2
  <2>6. CASE k \in 1..n /\ k = 1
    BY <1>2, <1>3, <2>1, <2>6
  <2>7. CASE k \in 1..n /\ k - 1 \in 1..n
    <3>1. Ranked(cs, k - 1)[1] + 1 <= Ranked(cs, k)[1] /\ Ranked(cs, k - 1)[2] + 1 <= Ranked(cs, k)[2]
      BY <1>2, <1>3, <2>7
    <3>2. ~(k > n) /\ k # 1
      BY <1>3, <2>7
    <3>3. end(k) = Ranked(cs, k) /\ start(k) = <<Ranked(cs, k - 1)[1] + 1, Ranked(cs, k - 1)[2] + 1>>
      BY <3>2
    <3>4. start(k)[1] = Ranked(cs, k - 1)[1] + 1 /\ start(k)[2] = Ranked(cs, k - 1)[2] + 1
      BY <3>3
    <3> HIDE DEF start, end
    <3> DEFINE c == Ranked(cs, k - 1)
               d == Ranked(cs, k)
    <3>5. /\ c[1] \in Nat /\ c[2] \in Nat /\ d[1] \in Nat /\ d[2] \in Nat /\ d[1] < g.a2 /\ d[2] < g.b2
          /\ end(k) = d /\ start(k)[1] = c[1] + 1 /\ start(k)[2] = c[2] + 1
          /\ c[1] + 1 <= d[1] /\ c[2] + 1 <= d[2]
      <4>1. /\ c[1] \in Nat /\ c[2] \in Nat /\ d[1] \in Nat /\ d[2] \in Nat /\ d[1] < g.a2 /\ d[2] < g.b2
        BY <1>3, <2>7
      <4>2. c[1] + 1 <= d[1] /\ c[2] + 1 <= d[2]
        BY <3>1
      <4>3. end(k) = d /\ start(k)[1] = c[1] + 1 /\ start(k)[2] = c[2] + 1
        BY <3>3, <3>4
      <4> QED
        BY <4>1, <4>2, <4>3
    <3> HIDE DEF c, d
    <3>6. end(k)[1] = d[1] /\ end(k)[2] = d[2]
      BY <3>5
    <3>7. /\ start(k)[1] \in Nat /\ start(k)[2] \in Nat /\ end(k)[1] \in Nat /\ end(k)[2] \in Nat
      BY <3>5, <3>6
    <3>8. start(k)[1] <= end(k)[1] /\ start(k)[2] <= end(k)[2]
      BY <3>5, <3>6
    <3>9. end(k)[1] <= g.a2 /\ end(k)[2] <= g.b2
      BY <1>2, <3>5, <3>6
    <3> QED
      BY <2>1, <3>7, <3>8, <3>9
  <2> QED
    BY <2>2, <2>3, <2>4, <2>5, <2>6, <2>7
<1>5. ASSUME NEW k \in 1..n
      PROVE  /\ end(k)[1] \in Nat /\ end(k)[2] \in Nat
             /\ end(k)[1] + 1 <= g.a2 /\ end(k)[2] + 1 <= g.b2
             /\ At(a, end(k)[1]) = At(b, end(k)[2])
             /\ start(k + 1) = <<end(k)[1] + 1, end(k)[2] + 1>>
  <2>1. ~(k > n) /\ k + 1 # 1 /\ (k + 1) - 1 = k
    BY <1>3
  <2> QED
    BY <1>2, <1>3, <2>1
<1> HIDE DEF start, end
<1>6. ASSUME NEW k \in 1..(n + 1)
      PROVE  /\ gap(k) \in Sound
             /\ Start(gap(k)) = <<start(k)[1], start(k)[2]>> /\ End(gap(k)) = <<end(k)[1], end(k)[2]>>
  <2>1. gap(k) \in Region
    BY <1>4 DEF Slice, Region, Task
  <2>2. end(k)[1] <= Len(a) /\ end(k)[2] <= Len(b)
    BY <1>2, <1>4
  <2>3. gap(k) \in Sound
    BY <1>4, <2>1, <2>2 DEF Slice, Sound
  <2> QED
    BY <2>3 DEF Slice, Start, End
<1>7. ASSUME NEW k \in 1..n
      PROVE  /\ anchor(k) \in Sound /\ anchor(k).task = "keep"
             /\ Start(anchor(k)) = <<end(k)[1], end(k)[2]>> /\ End(anchor(k)) = start(k + 1)
  <2> DEFINE x == end(k)[1]
             y == end(k)[2]
  <2>1. /\ x \in Nat /\ y \in Nat /\ x + 1 <= Len(a) /\ y + 1 <= Len(b)
        /\ At(a, x) = At(b, y) /\ start(k + 1) = <<x + 1, y + 1>>
    BY <1>2, <1>5
  <2>2. anchor(k) = [task |-> "keep", a1 |-> x, a2 |-> x + 1, b1 |-> y, b2 |-> y + 1]
    BY DEF Slice
  <2> HIDE DEF x, y, anchor
  <2>3. anchor(k) \in Region
    BY <2>1, <2>2 DEF Region, Task
  <2>4. Width(anchor(k)) = 1 /\ Height(anchor(k)) = 1
    BY <2>1, <2>2 DEF Width, Height
  <2>5. \A i \in 0..(Width(anchor(k)) - 1) : At(a, anchor(k).a1 + i) = At(b, anchor(k).b1 + i)
    <3>1. \A i \in 0..(Width(anchor(k)) - 1) : i = 0
      BY <2>4
    <3>2. anchor(k).a1 + 0 = x /\ anchor(k).b1 + 0 = y
      BY <2>1, <2>2
    <3> QED
      BY <2>1, <3>1, <3>2
  <2>6. anchor(k).a1 <= anchor(k).a2 /\ anchor(k).a2 <= Len(a) /\ anchor(k).b1 <= anchor(k).b2 /\ anchor(k).b2 <= Len(b)
    BY <2>1, <2>2
  <2>7. anchor(k) \in Sound
    BY <2>3, <2>4, <2>5, <2>6 DEF Sound
  <2> QED
    BY <2>1, <2>2, <2>7 DEF Start, End, x, y
<1> HIDE DEF gap, anchor
<1>8. ASSUME NEW k \in 1..(2 * n + 1), k % 2 = 1
      PROVE  /\ r[k] = gap((k + 1) \div 2) /\ (k + 1) \div 2 \in 1..(n + 1)
             /\ k < 2 * n + 1 => /\ (k + 1) \div 2 \in 1..n
                                 /\ r[k + 1] = anchor((k + 1) \div 2)
  <2>1. (k + 1) \div 2 \in 1..(n + 1) /\ (k < 2 * n + 1 => (k + 1) \div 2 \in 1..n /\ (k + 1) % 2 # 1 /\ k + 1 \in 1..(2 * n + 1))
    BY <1>3, <1>8
  <2> QED
    BY <1>8, <2>1
<1>9. ASSUME NEW k \in 1..(2 * n + 1), k % 2 # 1
      PROVE  /\ r[k] = anchor(k \div 2) /\ k \div 2 \in 1..n /\ (k \div 2) + 1 \in 1..(n + 1)
             /\ r[k + 1] = gap((k \div 2) + 1)
  <2>1. /\ k \div 2 \in 1..n /\ (k \div 2) + 1 \in 1..(n + 1)
        /\ (k + 1) % 2 = 1 /\ k + 1 \in 1..(2 * n + 1) /\ ((k + 1) + 1) \div 2 = (k \div 2) + 1
    BY <1>3, <1>9
  <2> QED
    BY <1>9, <2>1
<1>10. ASSUME NEW k \in 1..(2 * n + 1) PROVE r[k] \in Sound
  BY <1>6, <1>7, <1>8, <1>9
<1>11. r \in Seq(Sound) /\ Len(r) = 2 * n + 1 /\ r # <<>>
  <2> DEFINE m == 2 * n + 1
  <2>1. m \in Nat /\ DOMAIN r = 1..m
    BY <1>3
  <2>2. r \in [1..m -> Sound]
    BY <1>10
  <2> HIDE DEF r, m
  <2>3. r \in Seq(Sound) /\ Len(r) = m
    BY <2>1, <2>2, FunctionIsSeq
  <2> QED
    BY <1>3, <2>3, EmptyLen DEF m
<1>12. ASSUME NEW k \in 1..(Len(r) - 1)
       PROVE  End(r[k]) = Start(r[k + 1]) /\ (r[k].task = "keep" \/ r[k + 1].task = "keep")
  <2>1. k \in 1..(2 * n + 1) /\ k < 2 * n + 1
    BY <1>3, <1>11
  <2> HIDE DEF r
  <2>2. CASE k % 2 = 1
    <3> DEFINE m == (k + 1) \div 2
    <3>1. r[k] = gap(m) /\ r[k + 1] = anchor(m) /\ m \in 1..n /\ m \in 1..(n + 1)
      BY <1>8, <2>1, <2>2
    <3> HIDE DEF m
    <3> QED
      BY <1>6, <1>7, <3>1
  <2>3. CASE k % 2 # 1
    <3> DEFINE m == k \div 2
    <3>1. r[k] = anchor(m) /\ r[k + 1] = gap(m + 1) /\ m \in 1..n /\ m + 1 \in 1..(n + 1)
      BY <1>9, <2>1, <2>3
    <3> HIDE DEF m
    <3>2. start(m + 1) = <<start(m + 1)[1], start(m + 1)[2]>>
      BY <1>5, <3>1
    <3> QED
      BY <1>6, <1>7, <3>1, <3>2
  <2> QED
    BY <2>2, <2>3
<1>13. Start(r[1]) = Start(g) /\ End(r[Len(r)]) = End(g)
  <2>1. 1 \in 1..(2 * n + 1) /\ 1 % 2 = 1 /\ (1 + 1) \div 2 = 1 /\ 1 \in 1..(n + 1)
    BY <1>3
  <2>2. 2 * n + 1 \in 1..(2 * n + 1) /\ (2 * n + 1) % 2 = 1 /\ ((2 * n + 1) + 1) \div 2 = n + 1 /\ n + 1 \in 1..(n + 1)
    BY <1>3
  <2>3. r[1] = gap(1) /\ r[2 * n + 1] = gap(n + 1)
    BY <1>8, <2>1, <2>2
  <2>4. start(1) = Start(g) /\ end(n + 1) = End(g)
    BY <1>4, <2>1
  <2>5. Start(gap(1)) = Start(g) /\ End(gap(n + 1)) = End(g)
    BY <1>6, <2>1, <2>2, <2>4 DEF Start, End
  <2> QED
    BY <1>11, <2>3, <2>5
<1>14. Chain(r, Start(g), End(g))
  <2> HIDE DEF r
  <2> QED
    BY <1>11, <1>12, <1>13 DEF Chain
<1>15. Alternate(r)
  <2> HIDE DEF r
  <2> QED
    BY <1>12 DEF Alternate
<1> QED
  BY <1>1, <1>11, <1>14, <1>15

LEMMA SplitKeeps ==
  ASSUME IInv, Split
  PROVE  IInv'
<1>1. PICK cs \in Anchors(Top) :
        Push(IF cs = {} THEN <<[Top EXCEPT !.task = "replace"]>> ELSE Gaps(Top, cs))
  BY DEF Split
<1>2. /\ todo # <<>> /\ Top.task = "anchored" /\ Top.task # "keep"
      /\ UNCHANGED <<input, edits, lines, oi, ni>>
  BY DEF Split, Pending
<1>3. Top \in Sound /\ Len(a) \in Nat /\ Len(b) \in Nat
  BY <1>2, TopFacts
<1>4. CASE cs = {}
  <2> DEFINE g == [Top EXCEPT !.task = "replace"]
  <2>1. g \in Sound /\ Start(g) = Start(Top) /\ End(g) = End(Top)
    BY <1>3 DEF Sound, Region, Task, Start, End
  <2>2. Push(<<g>>)
    BY <1>1, <1>4
  <2> HIDE DEF g
  <2>3. <<g>> \in Seq(Sound) /\ Alternate(<<g>>) /\ Chain(<<g>>, Start(Top), End(Top))
    BY <2>1, SingleRegion
  <2> QED
    BY <1>2, <2>2, <2>3, RearrangeKeeps
<1>5. CASE cs # {}
  <2>1. Push(Gaps(Top, cs))
    BY <1>1, <1>5
  <2>2. /\ Gaps(Top, cs) \in Seq(Sound) /\ Alternate(Gaps(Top, cs))
        /\ Chain(Gaps(Top, cs), Start(Top), End(Top))
    BY <1>3, GapsFacts
  <2> QED
    BY <1>2, <2>1, <2>2, RearrangeKeeps
<1> QED
  BY <1>4, <1>5

LEMMA InitKeeps ==
  ASSUME Init
  PROVE  IInv
<1> DEFINE g == Slice("diff", 0, Len(a), 0, Len(b))
           z == [k \in 0..0 |-> 0]
<1>1. PICK pair \in Inputs : a = pair[1] /\ b = pair[2]
  BY DEF Init
<1>2. pair \in Seq(Text) \X Seq(Text) /\ pair = <<pair[1], pair[2]>>
  BY DiffAssumption
<1>3. /\ <<a, b>> \in Inputs /\ a \in Seq(Text) /\ b \in Seq(Text)
      /\ Len(a) \in Nat /\ Len(b) \in Nat
  BY <1>1, <1>2, LenProperties
<1>4. todo = <<g>> /\ edits = <<>> /\ lines = <<>> /\ oi = 0 /\ ni = 0
  BY DEF Init
<1>5. g \in Sound /\ Start(g) = <<0, 0>> /\ End(g) = <<Len(a), Len(b)>>
  BY <1>3 DEF Slice, Sound, Region, Task, Start, End
<1> HIDE DEF g
<1>6. todo \in Seq(Sound) /\ Alternate(todo) /\ Chain(todo, <<0, 0>>, <<Len(a), Len(b)>>)
  BY <1>4, <1>5, SingleRegion
<1>7. edits \in Seq(Edit) /\ lines \in Seq(Line) /\ Len(edits) = 0 /\ Len(lines) = 0
  BY <1>4, EmptySeq
<1>8. Script(edits, z, z)
  BY <1>7 DEF Script, Counts
<1>9. z[Len(edits)] = 0 /\ Resolved(z, z)
  BY <1>4, <1>7 DEF Resolved
<1> HIDE DEF z
<1>10. ScriptInv
  <2>1. Chain(todo, <<z[Len(edits)], z[Len(edits)]>>, <<Len(a), Len(b)>>)
    BY <1>6, <1>9
  <2> QED
    BY <1>8, <1>9, <2>1 DEF ScriptInv
<1> QED
  BY <1>3, <1>4, <1>6, <1>7, <1>10 DEF IInv, Typed

LEMMA ResolveKeeps ==
  ASSUME IInv, Resolve
  PROVE  IInv'
<1> DEFINE m == Len(lines) + 1
           e == edits[m]
           ln == [op   |-> e.op,
                  old  |-> IF e.op = "insert" THEN NoAddr ELSE oi,
                  new  |-> IF e.op = "delete" THEN NoAddr ELSE ni,
                  text |-> e.text]
<1>1. PICK o, n : /\ Script(edits, o, n)
                  /\ Chain(todo, <<o[Len(edits)], n[Len(edits)]>>, <<Len(a), Len(b)>>)
                  /\ Resolved(o, n)
  BY DEF IInv, ScriptInv
<1>2. /\ todo = <<>> /\ Len(lines) < Len(edits)
      /\ lines' = Append(lines, ln)
      /\ oi' = IF e.op = "insert" THEN oi ELSE oi + 1
      /\ ni' = IF e.op = "delete" THEN ni ELSE ni + 1
      /\ a' = a /\ b' = b /\ todo' = todo /\ edits' = edits
  BY DEF Resolve, input
<1>3. /\ edits \in Seq(Edit) /\ lines \in Seq(Line) /\ Len(edits) \in Nat /\ Len(lines) \in Nat
      /\ Typed
  BY LenProperties DEF IInv, Typed
<1>4. m \in 1..Len(edits) /\ m - 1 = Len(lines) /\ e \in Edit
  BY <1>2, <1>3, ElementOfSeq
<1>5. /\ oi = o[m - 1] /\ ni = n[m - 1] /\ oi \in Nat /\ ni \in Nat
  BY <1>1, <1>3, <1>4 DEF Resolved, Script, Counts
<1>6. /\ oi' = o[m] /\ ni' = n[m]
  <2>1. \/ e.op = "insert" /\ o[m] = o[m - 1]
        \/ e.op # "insert" /\ o[m] = o[m - 1] + 1
    BY <1>1, <1>4 DEF Script, Counts
  <2>2. \/ e.op = "delete" /\ n[m] = n[m - 1]
        \/ e.op # "delete" /\ n[m] = n[m - 1] + 1
    BY <1>1, <1>4 DEF Script, Counts
  <2> QED
    BY <1>2, <1>5, <2>1, <2>2
<1>7. ln \in Line
  BY <1>4, <1>5 DEF Line, Edit, NoAddr
<1> HIDE DEF ln
<1>8. /\ lines' \in Seq(Line) /\ Len(lines') = m /\ lines'[m] = ln
      /\ \A k \in 1..Len(lines) : lines'[k] = lines[k]
  BY <1>2, <1>3, <1>7, AppendProperties
<1>9. Resolved(o, n)'
  <2>1. ASSUME NEW k \in 1..m
        PROVE  lines'[k] = [op   |-> edits[k].op,
                            old  |-> IF edits[k].op = "insert" THEN NoAddr ELSE o[k - 1],
                            new  |-> IF edits[k].op = "delete" THEN NoAddr ELSE n[k - 1],
                            text |-> edits[k].text]
    <3>1. CASE k = m
      BY <1>5, <1>8, <3>1 DEF ln
    <3>2. CASE k \in 1..Len(lines)
      BY <1>1, <1>8, <3>2 DEF Resolved
    <3> QED
      BY <1>3, <3>1, <3>2
  <2>2. m <= Len(edits)
    BY <1>4
  <2> QED
    BY <1>2, <1>6, <1>8, <2>1, <2>2 DEF Resolved
<1>10. Script(edits, o, n)'
  BY <1>1, <1>2 DEF Script, Counts, At
<1>11. Chain(todo, <<o[Len(edits)], n[Len(edits)]>>, <<Len(a), Len(b)>>)'
  BY <1>1, <1>2 DEF Chain, Start, End
<1>12. Sound' = Sound
  BY <1>2 DEF Sound, Width, Height, At
<1>13. Alternate(todo)'
  BY <1>2 DEF IInv, Alternate
<1>14. Typed'
  BY <1>2, <1>3, <1>8, <1>12 DEF Typed
<1> QED
  BY <1>9, <1>10, <1>11, <1>13, <1>14 DEF IInv, ScriptInv

(* The script so far is right, and the regions to be done continue it.     *)
THEOREM ScriptInvariant == Spec => []IInv
<1>1. Init => IInv
  BY InitKeeps
<1>2. IInv /\ [Next]_vars => IInv'
  <2>1. ASSUME IInv, UNCHANGED vars PROVE IInv'
    <3>1. /\ a' = a /\ b' = b /\ todo' = todo /\ edits' = edits /\ lines' = lines
          /\ oi' = oi /\ ni' = ni
      BY <2>1 DEF vars
    <3>2. Sound' = Sound
      BY <3>1 DEF Sound, Width, Height, At
    <3>3. Typed' /\ Alternate(todo)'
      BY <2>1, <3>1, <3>2 DEF IInv, Typed, Alternate
    <3>4. PICK o, n : /\ Script(edits, o, n)
                      /\ Chain(todo, <<o[Len(edits)], n[Len(edits)]>>, <<Len(a), Len(b)>>)
                      /\ Resolved(o, n)
      BY <2>1 DEF IInv, ScriptInv
    <3>5. /\ Script(edits, o, n)'
          /\ Chain(todo, <<o[Len(edits)], n[Len(edits)]>>, <<Len(a), Len(b)>>)'
          /\ Resolved(o, n)'
      BY <3>1, <3>4 DEF Script, Counts, At, Chain, Start, End, Resolved
    <3> QED
      BY <3>3, <3>5 DEF IInv, ScriptInv
  <2> QED
    BY <2>1, TrimKeeps, KeepKeeps, SplitKeeps, ReplaceKeeps, WalkKeeps, FlushKeeps, ResolveKeeps DEF Next
<1> QED
  BY <1>1, <1>2, PTL DEF Spec

-----------------------------------------------------------------------------
(* A count grows by at most one at each edit, so that it passes each line. *)
LEMMA CountGrows ==
  ASSUME NEW es \in Seq(Edit), NEW s, NEW skip, NEW o, Counts(es, s, skip, o),
         NEW j \in 0..Len(es), NEW k \in 0..Len(es), j <= k
  PROVE  o[j] <= o[k]
<1> DEFINE S == {l \in j..Len(es) : o[l] < o[j]}
<1>1. /\ Len(es) \in Nat /\ o \in [0..Len(es) -> Nat]
      /\ \A l \in 1..Len(es) : o[l] = o[l - 1] \/ o[l] = o[l - 1] + 1
  BY LenProperties DEF Counts
<1>2. SUFFICES ASSUME o[k] < o[j] PROVE FALSE
  BY <1>1
<1>3. S \in SUBSET Nat /\ k \in S
  BY <1>1, <1>2
<1>4. PICK l \in S : \A x \in S : l <= x
  BY <1>3, LeastElement
<1>5. l \in 1..Len(es) /\ l - 1 \in j..Len(es) /\ l - 1 \in 0..Len(es)
  BY <1>1, <1>4
<1>6. o[l - 1] >= o[j]
  BY <1>1, <1>4, <1>5
<1> QED
  BY <1>1, <1>4, <1>5, <1>6

LEMMA CountPasses ==
  ASSUME NEW es \in Seq(Edit), NEW s, NEW skip, NEW o, Counts(es, s, skip, o),
         NEW v \in Nat, v < o[Len(es)]
  PROVE  \E k \in 1..Len(es) : es[k].op # skip /\ o[k - 1] = v
<1> DEFINE S == {l \in 0..Len(es) : o[l] > v}
<1>1. /\ Len(es) \in Nat /\ o \in [0..Len(es) -> Nat] /\ o[0] = 0
      /\ \A l \in 1..Len(es) : \/ es[l].op = skip /\ o[l] = o[l - 1]
                               \/ es[l].op # skip /\ o[l] = o[l - 1] + 1
  BY LenProperties DEF Counts
<1>2. S \in SUBSET Nat /\ Len(es) \in S
  BY <1>1
<1>3. PICK l \in S : \A x \in S : l <= x
  BY <1>2, LeastElement
<1>4. l \in 1..Len(es) /\ l - 1 \in 0..Len(es) /\ l - 1 \notin S
  BY <1>1, <1>3
<1>5. o[l - 1] <= v /\ o[l] > v
  BY <1>1, <1>3, <1>4
<1> QED
  BY <1>1, <1>4, <1>5

(* The edits that show side s number its lines, each once and in order.    *)
LEMMA SideShown ==
  ASSUME NEW es \in Seq(Edit), NEW s, NEW skip, NEW o, Counts(es, s, skip, o), o[Len(es)] = Len(s)
  PROVE  LET S == {k \in 1..Len(es) : es[k].op # skip}
         IN  /\ {o[k - 1] : k \in S} = 0..(Len(s) - 1)
             /\ \A j, k \in S : j < k => o[j - 1] < o[k - 1]
             /\ \A k \in S : es[k].text = At(s, o[k - 1])
<1> DEFINE S == {k \in 1..Len(es) : es[k].op # skip}
<1>1. /\ Len(es) \in Nat /\ o \in [0..Len(es) -> Nat] /\ Len(s) \in Nat
      /\ \A k \in S : o[k] = o[k - 1] + 1 /\ es[k].text = At(s, o[k - 1])
                      /\ k \in 0..Len(es) /\ k - 1 \in 0..Len(es)
  BY LenProperties DEF Counts
<1>2. ASSUME NEW j \in S, NEW k \in S, j < k PROVE o[j - 1] < o[k - 1]
  <2>1. o[j] <= o[k - 1]
    BY <1>1, <1>2, CountGrows
  <2>2. o[j] = o[j - 1] + 1 /\ o[j - 1] \in Nat /\ o[k - 1] \in Nat
    BY <1>1
  <2> QED
    BY <2>1, <2>2
<1>3. ASSUME NEW k \in S PROVE o[k - 1] \in 0..(Len(s) - 1)
  <2>1. o[k] <= o[Len(es)]
    <3>1. k \in 0..Len(es) /\ Len(es) \in 0..Len(es) /\ k <= Len(es)
      BY <1>1
    <3> QED
      BY <3>1, CountGrows
  <2>2. o[k] = o[k - 1] + 1 /\ o[k - 1] \in Nat
    BY <1>1
  <2> QED
    BY <1>1, <2>1, <2>2
<1>4. ASSUME NEW v \in 0..(Len(s) - 1) PROVE \E k \in S : o[k - 1] = v
  <2>1. v \in Nat /\ v < o[Len(es)]
    BY <1>1
  <2>2. \E k \in 1..Len(es) : es[k].op # skip /\ o[k - 1] = v
    BY <2>1, CountPasses
  <2> QED
    BY <2>2
<1>5. {o[k - 1] : k \in S} = 0..(Len(s) - 1)
  <2> HIDE DEF S
  <2> QED
    BY <1>3, <1>4
<1> QED
  BY <1>1, <1>2, <1>5

LEMMA ScriptMatches ==
  ASSUME IInv
  PROVE  LinesMatchInstructions
<1>1. PICK o, n : /\ Script(edits, o, n)
                  /\ Chain(todo, <<o[Len(edits)], n[Len(edits)]>>, <<Len(a), Len(b)>>)
                  /\ Resolved(o, n)
  BY DEF IInv, ScriptInv
<1>2. /\ Typed /\ Len(edits) \in Nat /\ Len(lines) \in Nat /\ Len(a) \in Nat /\ Len(b) \in Nat
      /\ edits \in Seq(Edit)
  BY LenProperties DEF IInv, Typed
<1>3. /\ Counts(edits, a, "insert", o) /\ Counts(edits, b, "delete", n)
  BY <1>1 DEF Script
<1>4. todo = <<>> => o[Len(edits)] = Len(a) /\ n[Len(edits)] = Len(b)
  BY <1>1 DEF Chain
<1>5. oi \in 0..Len(a) /\ ni \in 0..Len(b)
  <2>1. CASE todo = <<>>
    <3>1. Len(lines) \in 0..Len(edits) /\ Len(edits) \in 0..Len(edits)
      BY <1>1, <1>2 DEF Resolved
    <3>2. oi <= o[Len(edits)] /\ ni <= n[Len(edits)]
      BY <1>1, <1>2, <1>3, <3>1, CountGrows DEF Resolved
    <3>3. oi \in Nat /\ ni \in Nat
      BY <1>1, <1>3, <3>1 DEF Resolved, Counts
    <3> QED
      BY <1>2, <1>4, <2>1, <3>2, <3>3
  <2>2. CASE todo # <<>>
    <3>1. Len(lines) = 0
      BY <1>2, <2>2 DEF Typed
    <3> QED
      BY <1>1, <1>2, <1>3, <3>1 DEF Resolved, Counts
  <2> QED
    BY <2>1, <2>2
<1>6. TypeOK
  <2>1. todo \in Seq(Region)
    <3>1. Sound \subseteq Region
      BY DEF Sound
    <3> QED
      BY <1>2, <3>1, SeqMonotonic DEF Typed
  <2>2. \A k \in DOMAIN todo : todo[k] \in Sound
    BY <1>2, ElementOfSeq, LenProperties DEF Typed
  <2>3. \A k \in DOMAIN todo : /\ todo[k].a1 <= todo[k].a2 /\ todo[k].a2 <= Len(a)
                               /\ todo[k].b1 <= todo[k].b2 /\ todo[k].b2 <= Len(b)
    BY <2>2 DEF Sound
  <2> QED
    BY <1>2, <1>5, <2>1, <2>3 DEF TypeOK, Typed
<1>7. ASSUME Finished
      PROVE  /\ {lines[k].old : k \in ShownOld} = 0..(Len(a) - 1)
             /\ {lines[k].new : k \in ShownNew} = 0..(Len(b) - 1)
             /\ \A j, k \in ShownOld : j < k => lines[j].old < lines[k].old
             /\ \A j, k \in ShownNew : j < k => lines[j].new < lines[k].new
             /\ \A k \in ShownOld : lines[k].text = At(a, lines[k].old)
             /\ \A k \in ShownNew : lines[k].text = At(b, lines[k].new)
  <2> DEFINE O == {k \in 1..Len(edits) : edits[k].op # "insert"}
             N == {k \in 1..Len(edits) : edits[k].op # "delete"}
  <2>1. todo = <<>> /\ DOMAIN lines = 1..Len(edits)
    BY <1>2, <1>7, LenProperties DEF Finished, Typed
  <2>2. \A k \in 1..Len(edits) :
          /\ lines[k].op = edits[k].op /\ lines[k].text = edits[k].text
          /\ lines[k].old = IF edits[k].op = "insert" THEN NoAddr ELSE o[k - 1]
          /\ lines[k].new = IF edits[k].op = "delete" THEN NoAddr ELSE n[k - 1]
    <3>1. Len(lines) = Len(edits)
      BY <1>7 DEF Finished
    <3>2. \A k \in 1..Len(edits) :
            lines[k] = [op   |-> edits[k].op,
                        old  |-> IF edits[k].op = "insert" THEN NoAddr ELSE o[k - 1],
                        new  |-> IF edits[k].op = "delete" THEN NoAddr ELSE n[k - 1],
                        text |-> edits[k].text]
      BY <1>1, <3>1 DEF Resolved
    <3>3. ASSUME NEW k \in 1..Len(edits)
          PROVE  /\ lines[k].op = edits[k].op /\ lines[k].text = edits[k].text
                 /\ lines[k].old = IF edits[k].op = "insert" THEN NoAddr ELSE o[k - 1]
                 /\ lines[k].new = IF edits[k].op = "delete" THEN NoAddr ELSE n[k - 1]
      <4> DEFINE x == IF edits[k].op = "insert" THEN NoAddr ELSE o[k - 1]
                 y == IF edits[k].op = "delete" THEN NoAddr ELSE n[k - 1]
      <4>1. lines[k] = [op |-> edits[k].op, old |-> x, new |-> y, text |-> edits[k].text]
        BY <3>2
      <4>2. lines[k].old = x /\ lines[k].new = y /\ lines[k].op = edits[k].op /\ lines[k].text = edits[k].text
        <5> HIDE DEF x, y
        <5> QED
          BY <4>1
      <4> QED
        BY <4>2
    <3> QED
      BY <3>3
  <2>3. ShownOld = O /\ ShownNew = N
    BY <2>1, <2>2 DEF ShownOld, ShownNew
  <2>4. /\ {o[k - 1] : k \in O} = 0..(Len(a) - 1)
        /\ \A j, k \in O : j < k => o[j - 1] < o[k - 1]
        /\ \A k \in O : edits[k].text = At(a, o[k - 1])
    BY <1>2, <1>3, <1>4, <2>1, SideShown
  <2>5. /\ {n[k - 1] : k \in N} = 0..(Len(b) - 1)
        /\ \A j, k \in N : j < k => n[j - 1] < n[k - 1]
        /\ \A k \in N : edits[k].text = At(b, n[k - 1])
    BY <1>2, <1>3, <1>4, <2>1, SideShown
  <2>6. /\ \A k \in O : lines[k].old = o[k - 1] /\ lines[k].text = edits[k].text
        /\ \A k \in N : lines[k].new = n[k - 1] /\ lines[k].text = edits[k].text
    BY <2>2
  <2> HIDE DEF O, N
  <2>7. /\ {lines[k].old : k \in O} = {o[k - 1] : k \in O}
        /\ {lines[k].new : k \in N} = {n[k - 1] : k \in N}
    BY <2>6
  <2> QED
    BY <2>3, <2>4, <2>5, <2>6, <2>7
<1> QED
  BY <1>6, <1>7 DEF LinesMatchInstructions

(* diff.go:185-209: ResolveLines counts the lines it shows, so the script  *)
(* must show every line of both sides once and in order, whichever of the  *)
(* ways the regions were diffed; for all inputs and table sizes.           *)
THEOREM ScriptRebuildsBothSides == Spec => []LinesMatchInstructions
BY ScriptInvariant, ScriptMatches, PTL

-----------------------------------------------------------------------------
(* Pairs of equal lines of a[i:i2] and b[j:j2], in the order of both sides *)
(* and no line twice; and how many such pairs there are at most.           *)
Cells(i, i2, j, j2) == (i..(i2 - 1)) \X (j..(j2 - 1))
Ordered(M) == \A m, n \in M : m[1] < n[1] <=> m[2] < n[2]
Matchings(i, i2, j, j2) ==
  {M \in SUBSET Cells(i, i2, j, j2) : Ordered(M) /\ \A m \in M : At(a, m[1]) = At(b, m[2])}
Longest(i, i2, j, j2) ==
  CHOOSE k \in Nat : /\ \E M \in Matchings(i, i2, j, j2) : Cardinality(M) = k
                     /\ \A M \in Matchings(i, i2, j, j2) : Cardinality(M) <= k

LEMMA CellFacts ==
  ASSUME NEW i \in Nat, NEW i2 \in Nat, NEW j \in Nat, NEW j2 \in Nat, NEW m \in Cells(i, i2, j, j2)
  PROVE  /\ m = <<m[1], m[2]>> /\ m[1] \in Nat /\ m[2] \in Nat
         /\ i <= m[1] /\ m[1] < i2 /\ j <= m[2] /\ m[2] < j2
BY DEF Cells

LEMMA MatchingFinite ==
  ASSUME NEW i \in Nat, NEW i2 \in Nat, NEW j \in Nat, NEW j2 \in Nat, NEW M \in Matchings(i, i2, j, j2)
  PROVE  /\ IsFiniteSet(M) /\ Cardinality(M) \in Nat
         /\ Cardinality(Cells(i, i2, j, j2)) \in Nat
         /\ Cardinality(M) <= Cardinality(Cells(i, i2, j, j2))
<1>1. IsFiniteSet(Cells(i, i2, j, j2))
  <2>1. i \in Int /\ i2 - 1 \in Int /\ j \in Int /\ j2 - 1 \in Int
    OBVIOUS
  <2>2. IsFiniteSet(i..(i2 - 1)) /\ IsFiniteSet(j..(j2 - 1))
    BY <2>1, FS_Interval
  <2> QED
    BY <2>2, FS_Product DEF Cells
<1>2. M \in SUBSET Cells(i, i2, j, j2)
  BY DEF Matchings
<1> QED
  BY <1>1, <1>2, FS_Subset, FS_CardinalityType

LEMMA LongestFacts ==
  ASSUME NEW i \in Nat, NEW i2 \in Nat, NEW j \in Nat, NEW j2 \in Nat
  PROVE  /\ Longest(i, i2, j, j2) \in Nat
         /\ \E M \in Matchings(i, i2, j, j2) : Cardinality(M) = Longest(i, i2, j, j2)
         /\ \A M \in Matchings(i, i2, j, j2) : Cardinality(M) <= Longest(i, i2, j, j2)
<1> DEFINE MM == Matchings(i, i2, j, j2)
           S == {k \in Nat : \A M \in MM : Cardinality(M) <= k}
<1>1. {} \in MM /\ Cardinality({}) = 0
  BY FS_EmptySet DEF Matchings, Ordered
<1>2. \A M \in MM : Cardinality(M) \in Nat
  BY MatchingFinite
<1>3. Cardinality(Cells(i, i2, j, j2)) \in S
  BY <1>1, MatchingFinite
<1>4. S \in SUBSET Nat /\ S # {}
  BY <1>3
<1>5. PICK k \in S : \A l \in S : k <= l
  <2> HIDE DEF S
  <2> QED
    BY <1>4, LeastElement
<1>6. \E M \in MM : Cardinality(M) = k
  <2>1. CASE k = 0
    BY <1>1, <2>1
  <2>2. CASE k # 0
    <3>1. k - 1 \in Nat /\ k - 1 \notin S
      BY <1>5, <2>2
    <3>2. PICK M \in MM : ~(Cardinality(M) <= k - 1)
      BY <3>1
    <3>3. Cardinality(M) <= k
      BY <1>5
    <3> QED
      BY <1>2, <1>5, <3>2, <3>3
  <2> QED
    BY <2>1, <2>2
<1>7. k \in Nat /\ \A M \in MM : Cardinality(M) <= k
  BY <1>5
<1> QED
  BY <1>6, <1>7 DEF Longest

LEMMA LongestIsNat ==
  ASSUME NEW i \in Nat, NEW i2 \in Nat, NEW j \in Nat, NEW j2 \in Nat
  PROVE  Longest(i, i2, j, j2) \in Nat
BY LongestFacts

LEMMA LongestReached ==
  ASSUME NEW i \in Nat, NEW i2 \in Nat, NEW j \in Nat, NEW j2 \in Nat
  PROVE  \E M \in Matchings(i, i2, j, j2) : Cardinality(M) = Longest(i, i2, j, j2)
BY LongestFacts

LEMMA LongestBounds ==
  ASSUME NEW i \in Nat, NEW i2 \in Nat, NEW j \in Nat, NEW j2 \in Nat,
         NEW M \in Matchings(i, i2, j, j2)
  PROVE  Cardinality(M) <= Longest(i, i2, j, j2)
BY LongestFacts

LEMMA LongestInside ==
  ASSUME NEW i \in Nat, NEW i2 \in Nat, NEW j \in Nat, NEW j2 \in Nat,
         NEW x \in Nat, NEW x2 \in Nat, NEW y \in Nat, NEW y2 \in Nat,
         i <= x, x2 <= i2, j <= y, y2 <= j2
  PROVE  /\ Matchings(x, x2, y, y2) \subseteq Matchings(i, i2, j, j2)
         /\ Longest(x, x2, y, y2) <= Longest(i, i2, j, j2)
<1>1. Cells(x, x2, y, y2) \subseteq Cells(i, i2, j, j2)
  <2>1. x..(x2 - 1) \subseteq i..(i2 - 1) /\ y..(y2 - 1) \subseteq j..(j2 - 1)
    OBVIOUS
  <2> QED
    BY <2>1 DEF Cells
<1>2. Matchings(x, x2, y, y2) \subseteq Matchings(i, i2, j, j2)
  BY <1>1 DEF Matchings
<1>3. PICK M \in Matchings(x, x2, y, y2) : Cardinality(M) = Longest(x, x2, y, y2)
  BY LongestReached
<1>4. M \in Matchings(i, i2, j, j2)
  BY <1>2
<1>5. Cardinality(M) <= Longest(i, i2, j, j2)
  BY <1>4, LongestBounds
<1> QED
  BY <1>2, <1>3, <1>5

LEMMA LongestEmpty ==
  ASSUME NEW i \in Nat, NEW i2 \in Nat, NEW j \in Nat, NEW j2 \in Nat, i >= i2 \/ j >= j2
  PROVE  Longest(i, i2, j, j2) = 0
<1>1. Cells(i, i2, j, j2) = {}
  <2>1. i..(i2 - 1) = {} \/ j..(j2 - 1) = {}
    OBVIOUS
  <2> QED
    BY <2>1 DEF Cells
<1>2. \A M \in Matchings(i, i2, j, j2) : M = {}
  BY <1>1 DEF Matchings
<1> QED
  BY <1>2, LongestFacts, FS_EmptySet

(* Removing elements of which there is at most one.                        *)
LEMMA RemoveOne ==
  ASSUME NEW M, IsFiniteSet(M), NEW T \in SUBSET M, \A m, n \in T : m = n
  PROVE  /\ Cardinality(M) \in Nat /\ Cardinality(M \ T) \in Nat
         /\ Cardinality(M) <= Cardinality(M \ T) + 1
<1>1. Cardinality(M) \in Nat
  BY FS_CardinalityType
<1>2. CASE T = {}
  <2>1. M \ T = M
    BY <1>2
  <2> QED
    BY <1>1, <2>1
<1>3. CASE T # {}
  <2>1. PICK m \in T : T = {m}
    BY <1>3
  <2>2. /\ IsFiniteSet(M \ {m})
        /\ Cardinality(M \ {m}) = IF m \in M THEN Cardinality(M) - 1 ELSE Cardinality(M)
    BY FS_RemoveElement
  <2>3. Cardinality(M \ {m}) \in Nat
    BY <2>2, FS_CardinalityType
  <2>4. Cardinality(M) <= Cardinality(M \ {m}) + 1
    BY <1>1, <2>1, <2>2, <2>3
  <2> QED
    BY <1>1, <2>1, <2>3, <2>4
<1> QED
  BY <1>2, <1>3

(* A line less of both sides costs at most one pair: pairs with either     *)
(* line would cross.                                                       *)
LEMMA LongestDropFront ==
  ASSUME NEW i \in Nat, NEW i2 \in Nat, NEW j \in Nat, NEW j2 \in Nat
  PROVE  Longest(i, i2, j, j2) <= Longest(i + 1, i2, j + 1, j2) + 1
<1>1. PICK M \in Matchings(i, i2, j, j2) : Cardinality(M) = Longest(i, i2, j, j2)
  BY LongestReached, Zenon
<1> DEFINE T == {m \in M : m[1] = i \/ m[2] = j}
<1>2. \A m \in M : /\ m = <<m[1], m[2]>> /\ m[1] \in Nat /\ m[2] \in Nat
                   /\ i <= m[1] /\ m[1] < i2 /\ j <= m[2] /\ m[2] < j2
                   /\ At(a, m[1]) = At(b, m[2])
  BY CellFacts DEF Matchings
<1>3. Ordered(M)
  BY DEF Matchings
<1>4. ASSUME NEW m \in T, NEW n \in T PROVE m = n
  <2>1. m[1] = n[1] /\ m[2] = n[2]
    BY <1>2, <1>3 DEF Ordered
  <2> QED
    BY <1>2, <2>1
<1>5. M \ T \in Matchings(i + 1, i2, j + 1, j2)
  <2>1. ASSUME NEW m \in M \ T PROVE m \in Cells(i + 1, i2, j + 1, j2) /\ At(a, m[1]) = At(b, m[2])
    <3>1. m[1] \in (i + 1)..(i2 - 1) /\ m[2] \in (j + 1)..(j2 - 1)
      BY <1>2
    <3> QED
      BY <1>2, <3>1 DEF Cells
  <2>2. Ordered(M \ T)
    BY <1>3 DEF Ordered
  <2> QED
    BY <2>1, <2>2 DEF Matchings
<1>6. /\ Cardinality(M) <= Cardinality(M \ T) + 1
      /\ Cardinality(M) \in Nat /\ Cardinality(M \ T) \in Nat
  <2>1. IsFiniteSet(M) /\ T \in SUBSET M
    BY MatchingFinite
  <2> HIDE DEF T
  <2> QED
    BY <1>4, <2>1, RemoveOne
<1>7. Cardinality(M \ T) <= Longest(i + 1, i2, j + 1, j2) /\ Longest(i + 1, i2, j + 1, j2) \in Nat
  <2> HIDE DEF T
  <2>1. i + 1 \in Nat /\ j + 1 \in Nat
    OBVIOUS
  <2> QED
    BY <1>5, <2>1, LongestBounds, LongestIsNat
<1> HIDE DEF T
<1> QED
  BY <1>1, <1>6, <1>7

LEMMA LongestDropBack ==
  ASSUME NEW i \in Nat, NEW i2 \in Nat \ {0}, NEW j \in Nat, NEW j2 \in Nat \ {0}
  PROVE  Longest(i, i2, j, j2) <= Longest(i, i2 - 1, j, j2 - 1) + 1
<1>1. PICK M \in Matchings(i, i2, j, j2) : Cardinality(M) = Longest(i, i2, j, j2)
  BY LongestReached, Zenon
<1> DEFINE T == {m \in M : m[1] = i2 - 1 \/ m[2] = j2 - 1}
<1>2. \A m \in M : /\ m = <<m[1], m[2]>> /\ m[1] \in Nat /\ m[2] \in Nat
                   /\ i <= m[1] /\ m[1] < i2 /\ j <= m[2] /\ m[2] < j2
                   /\ At(a, m[1]) = At(b, m[2])
  BY CellFacts DEF Matchings
<1>3. Ordered(M)
  BY DEF Matchings
<1>4. ASSUME NEW m \in T, NEW n \in T PROVE m = n
  <2>1. m[1] = n[1] /\ m[2] = n[2]
    BY <1>2, <1>3 DEF Ordered
  <2> QED
    BY <1>2, <2>1
<1>5. M \ T \in Matchings(i, i2 - 1, j, j2 - 1)
  <2>1. ASSUME NEW m \in M \ T PROVE m \in Cells(i, i2 - 1, j, j2 - 1) /\ At(a, m[1]) = At(b, m[2])
    <3>1. m[1] \in i..(i2 - 1 - 1) /\ m[2] \in j..(j2 - 1 - 1)
      BY <1>2
    <3> QED
      BY <1>2, <3>1 DEF Cells
  <2>2. Ordered(M \ T)
    BY <1>3 DEF Ordered
  <2> QED
    BY <2>1, <2>2 DEF Matchings
<1>6. /\ Cardinality(M) <= Cardinality(M \ T) + 1
      /\ Cardinality(M) \in Nat /\ Cardinality(M \ T) \in Nat
  <2>1. IsFiniteSet(M) /\ T \in SUBSET M
    BY MatchingFinite
  <2> HIDE DEF T
  <2> QED
    BY <1>4, <2>1, RemoveOne
<1>7. Cardinality(M \ T) <= Longest(i, i2 - 1, j, j2 - 1) /\ Longest(i, i2 - 1, j, j2 - 1) \in Nat
  <2> HIDE DEF T
  <2>1. i2 - 1 \in Nat /\ j2 - 1 \in Nat
    OBVIOUS
  <2> QED
    BY <1>5, <2>1, LongestBounds, LongestIsNat
<1> HIDE DEF T
<1> QED
  BY <1>1, <1>6, <1>7

(* A common first line can be paired.                                      *)
LEMMA LongestTakeFront ==
  ASSUME NEW i \in Nat, NEW i2 \in Nat, NEW j \in Nat, NEW j2 \in Nat,
         i < i2, j < j2, At(a, i) = At(b, j)
  PROVE  Longest(i + 1, i2, j + 1, j2) + 1 <= Longest(i, i2, j, j2)
<1>0. i + 1 \in Nat /\ j + 1 \in Nat
  OBVIOUS
<1>1. PICK M \in Matchings(i + 1, i2, j + 1, j2) : Cardinality(M) = Longest(i + 1, i2, j + 1, j2)
  BY <1>0, LongestReached, Zenon
<1> DEFINE c == <<i, j>>
           N == M \cup {c}
<1>2. \A m \in M : /\ m \in Cells(i + 1, i2, j + 1, j2)
                   /\ m = <<m[1], m[2]>> /\ m[1] \in Nat /\ m[2] \in Nat
                   /\ i + 1 <= m[1] /\ m[1] < i2 /\ j + 1 <= m[2] /\ m[2] < j2
                   /\ At(a, m[1]) = At(b, m[2])
  BY <1>0, CellFacts DEF Matchings
<1>3. c[1] = i /\ c[2] = j /\ c \notin M
  BY <1>2
<1>4. N \in Matchings(i, i2, j, j2)
  <2>1. M \subseteq Cells(i, i2, j, j2) /\ Ordered(M)
    <3>1. Matchings(i + 1, i2, j + 1, j2) \subseteq Matchings(i, i2, j, j2)
      <4> DEFINE x == i + 1
                 y == j + 1
      <4>1. x \in Nat /\ y \in Nat /\ i <= x /\ j <= y /\ i2 <= i2 /\ j2 <= j2
        OBVIOUS
      <4> HIDE DEF x, y
      <4>2. Matchings(x, i2, y, j2) \subseteq Matchings(i, i2, j, j2)
        BY <4>1, LongestInside
      <4> QED
        BY <4>2 DEF x, y
    <3> QED
      BY <3>1 DEF Matchings
  <2>2. c \in Cells(i, i2, j, j2)
    BY DEF Cells
  <2> HIDE DEF c
  <2>3. Ordered(N)
    <3>1. ASSUME NEW m \in M PROVE c[1] < m[1] /\ c[2] < m[2] /\ ~(m[1] < c[1]) /\ ~(m[2] < c[2])
      BY <1>2, <1>3
    <3>2. ~(c[1] < c[1]) /\ ~(c[2] < c[2])
      BY <1>3
    <3> QED
      BY <2>1, <3>1, <3>2 DEF Ordered
  <2>4. \A m \in N : At(a, m[1]) = At(b, m[2])
    BY <1>2, <1>3
  <2> QED
    BY <2>1, <2>2, <2>3, <2>4 DEF Matchings
<1>5. Cardinality(N) = Cardinality(M) + 1
  <2>1. IsFiniteSet(M)
    BY <1>0, MatchingFinite
  <2> HIDE DEF c
  <2> QED
    BY <1>3, <2>1, FS_AddElement
<1>6. Cardinality(N) <= Longest(i, i2, j, j2)
  <2> HIDE DEF N
  <2> QED
    BY <1>4, LongestBounds
<1> QED
  BY <1>1, <1>5, <1>6

(* Of two first lines that differ one is not paired.                       *)
LEMMA LongestSkipFront ==
  ASSUME NEW i \in Nat, NEW i2 \in Nat, NEW j \in Nat, NEW j2 \in Nat, At(a, i) # At(b, j)
  PROVE  \/ Longest(i, i2, j, j2) <= Longest(i + 1, i2, j, j2)
         \/ Longest(i, i2, j, j2) <= Longest(i, i2, j + 1, j2)
<1>0. i + 1 \in Nat /\ j + 1 \in Nat
  OBVIOUS
<1>1. PICK M \in Matchings(i, i2, j, j2) : Cardinality(M) = Longest(i, i2, j, j2)
  BY LongestReached, Zenon
<1>2. \A m \in M : /\ m = <<m[1], m[2]>> /\ m[1] \in Nat /\ m[2] \in Nat
                   /\ i <= m[1] /\ m[1] < i2 /\ j <= m[2] /\ m[2] < j2
                   /\ At(a, m[1]) = At(b, m[2])
  BY CellFacts DEF Matchings
<1>3. Ordered(M)
  BY DEF Matchings
<1>4. CASE \A m \in M : m[1] # i
  <2>1. ASSUME NEW m \in M PROVE m \in Cells(i + 1, i2, j, j2)
    <3>1. m[1] \in (i + 1)..(i2 - 1) /\ m[2] \in j..(j2 - 1)
      BY <1>2, <1>4
    <3> QED
      BY <1>2, <3>1 DEF Cells
  <2>2. M \in Matchings(i + 1, i2, j, j2)
    BY <1>2, <1>3, <2>1 DEF Matchings
  <2> QED
    BY <1>0, <1>1, <2>2, LongestBounds
<1>5. CASE \E m \in M : m[1] = i
  <2>1. PICK m \in M : m[1] = i
    BY <1>5
  <2>2. m[2] > j
    BY <1>2, <2>1
  <2>3. ASSUME NEW n \in M PROVE n[2] # j
    BY <1>2, <1>3, <2>1, <2>2 DEF Ordered
  <2>4. ASSUME NEW n \in M PROVE n \in Cells(i, i2, j + 1, j2)
    <3>1. n[1] \in i..(i2 - 1) /\ n[2] \in (j + 1)..(j2 - 1)
      BY <1>2, <2>3
    <3> QED
      BY <1>2, <3>1 DEF Cells
  <2>5. M \in Matchings(i, i2, j + 1, j2)
    BY <1>2, <1>3, <2>4 DEF Matchings
  <2> QED
    BY <1>0, <1>1, <2>5, LongestBounds
<1> QED
  BY <1>4, <1>5

(* The recursion of appendLCS computes it.                                 *)
StepFacts(i, i2, j, j2) ==
  /\ i = i2 \/ j = j2 => Longest(i, i2, j, j2) = 0
  /\ i # i2 /\ j # j2 /\ At(a, i) = At(b, j) =>
       Longest(i, i2, j, j2) = Longest(i + 1, i2, j + 1, j2) + 1
  /\ i # i2 /\ j # j2 /\ At(a, i) # At(b, j) =>
       Longest(i, i2, j, j2) = Maximum(Longest(i + 1, i2, j, j2), Longest(i, i2, j + 1, j2))

LEMMA LongestStep ==
  ASSUME NEW i \in Nat, NEW i2 \in Nat, NEW j \in Nat, NEW j2 \in Nat, i <= i2, j <= j2
  PROVE  StepFacts(i, i2, j, j2)
<1> DEFINE x == i + 1
           y == j + 1
<1>1. x \in Nat /\ y \in Nat /\ i <= x /\ j <= y /\ i2 <= i2 /\ j2 <= j2 /\ i <= i /\ j <= j
  OBVIOUS
<1> HIDE DEF x, y
<1>2. /\ Longest(i, i2, j, j2) \in Nat /\ Longest(x, i2, y, j2) \in Nat
      /\ Longest(x, i2, j, j2) \in Nat /\ Longest(i, i2, y, j2) \in Nat
  BY <1>1, LongestIsNat
<1>3. i = i2 \/ j = j2 => Longest(i, i2, j, j2) = 0
  BY LongestEmpty
<1>4. ASSUME i # i2, j # j2, At(a, i) = At(b, j)
      PROVE  Longest(i, i2, j, j2) = Longest(x, i2, y, j2) + 1
  <2>1. Longest(i, i2, j, j2) <= Longest(x, i2, y, j2) + 1
    BY LongestDropFront DEF x, y
  <2>2. Longest(x, i2, y, j2) + 1 <= Longest(i, i2, j, j2)
    BY <1>4, LongestTakeFront DEF x, y
  <2> QED
    BY <1>2, <2>1, <2>2
<1>5. ASSUME i # i2, j # j2, At(a, i) # At(b, j)
      PROVE  Longest(i, i2, j, j2) = Maximum(Longest(x, i2, j, j2), Longest(i, i2, y, j2))
  <2>1. \/ Longest(i, i2, j, j2) <= Longest(x, i2, j, j2)
        \/ Longest(i, i2, j, j2) <= Longest(i, i2, y, j2)
    BY <1>5, LongestSkipFront DEF x, y
  <2>2. Longest(x, i2, j, j2) <= Longest(i, i2, j, j2) /\ Longest(i, i2, y, j2) <= Longest(i, i2, j, j2)
    BY <1>1, LongestInside
  <2> QED
    BY <1>2, <2>1, <2>2 DEF Maximum
<1> QED
  BY <1>3, <1>4, <1>5 DEF x, y, StepFacts

LEMMA TableIsLongest ==
  ASSUME NEW g, g.a1 \in Nat, g.a2 \in Nat, g.b1 \in Nat, g.b2 \in Nat,
         NEW i \in g.a1..g.a2, NEW j \in g.b1..g.b2
  PROVE  Table(g)[<<i, j>>] = Longest(i, g.a2, j, g.b2)
<1> DEFINE D == (g.a1..g.a2) \X (g.b1..g.b2)
           L(c) == Longest(c[1], g.a2, c[2], g.b2)
           Body(f, c) == IF c[1] = g.a2 \/ c[2] = g.b2 THEN 0
                         ELSE IF At(a, c[1]) = At(b, c[2]) THEN f[<<c[1] + 1, c[2] + 1>>] + 1
                         ELSE Maximum(f[<<c[1] + 1, c[2]>>], f[<<c[1], c[2] + 1>>])
           l == [c \in D |-> L(c)]
           t == Table(g)
<1>1. t = CHOOSE f : f = [c \in D |-> Body(f, c)]
  BY DEF Table
<1>2. ASSUME NEW c \in D
      PROVE  /\ c = <<c[1], c[2]>> /\ c[1] \in Nat /\ c[2] \in Nat /\ c[1] <= g.a2 /\ c[2] <= g.b2
             /\ c[1] # g.a2 => c[1] + 1 \in g.a1..g.a2
             /\ c[2] # g.b2 => c[2] + 1 \in g.b1..g.b2
             /\ c[1] \in g.a1..g.a2 /\ c[2] \in g.b1..g.b2
  OBVIOUS
<1> HIDE DEF t
<1>3. ASSUME NEW c \in D, NEW f,
             c[1] # g.a2 /\ c[2] # g.b2 =>
               /\ f[<<c[1] + 1, c[2] + 1>>] = L(<<c[1] + 1, c[2] + 1>>)
               /\ f[<<c[1] + 1, c[2]>>] = L(<<c[1] + 1, c[2]>>)
               /\ f[<<c[1], c[2] + 1>>] = L(<<c[1], c[2] + 1>>)
      PROVE  Body(f, c) = L(c)
  <2>1. /\ c[1] = g.a2 \/ c[2] = g.b2 => L(c) = 0
        /\ c[1] # g.a2 /\ c[2] # g.b2 /\ At(a, c[1]) = At(b, c[2]) =>
             L(c) = Longest(c[1] + 1, g.a2, c[2] + 1, g.b2) + 1
        /\ c[1] # g.a2 /\ c[2] # g.b2 /\ At(a, c[1]) # At(b, c[2]) =>
             L(c) = Maximum(Longest(c[1] + 1, g.a2, c[2], g.b2), Longest(c[1], g.a2, c[2] + 1, g.b2))
    <3>1. /\ c[1] \in Nat /\ c[2] \in Nat /\ g.a2 \in Nat /\ g.b2 \in Nat
          /\ c[1] <= g.a2 /\ c[2] <= g.b2
      BY <1>2
    <3>2. StepFacts(c[1], g.a2, c[2], g.b2)
      BY <3>1, LongestStep
    <3>3. L(c) = Longest(c[1], g.a2, c[2], g.b2)
      OBVIOUS
    <3> QED
      BY <3>2, <3>3 DEF StepFacts
  <2>2. /\ L(<<c[1] + 1, c[2] + 1>>) = Longest(c[1] + 1, g.a2, c[2] + 1, g.b2)
        /\ L(<<c[1] + 1, c[2]>>) = Longest(c[1] + 1, g.a2, c[2], g.b2)
        /\ L(<<c[1], c[2] + 1>>) = Longest(c[1], g.a2, c[2] + 1, g.b2)
    OBVIOUS
  <2> HIDE DEF L
  <2> QED
    BY <1>3, <2>1, <2>2
<1>4. ASSUME NEW c \in D, c[1] # g.a2, c[2] # g.b2
      PROVE  <<c[1] + 1, c[2] + 1>> \in D /\ <<c[1] + 1, c[2]>> \in D /\ <<c[1], c[2] + 1>> \in D
  BY <1>2, <1>4
<1> HIDE DEF D, L, Body
<1>5. l = [c \in D |-> Body(l, c)]
  <2>1. ASSUME NEW c \in D PROVE Body(l, c) = L(c)
    BY <1>3, <1>4
  <2> QED
    BY <2>1
<1>6. t = [c \in D |-> Body(t, c)]
  <2> HIDE DEF l
  <2>1. \E f : f = [c \in D |-> Body(f, c)]
    BY <1>5
  <2> QED
    BY <1>1, <2>1
<1>7. \A c \in D : t[c] = Body(t, c)
  BY <1>6
<1> DEFINE size(c) == (g.a2 - c[1]) + (g.b2 - c[2])
           S == {k \in Nat : \E c \in D : size(c) = k /\ t[c] # L(c)}
<1>8. ASSUME NEW c \in D PROVE t[c] = L(c)
  <2>1. SUFFICES ASSUME S # {} PROVE FALSE
    <3>1. size(c) \in Nat
      BY <1>2
    <3> QED
      BY <3>1, <2>1
  <2>2. PICK k \in S : \A m \in S : k <= m
    <3>1. S \in SUBSET Nat
      OBVIOUS
    <3> HIDE DEF S
    <3> QED
      BY <2>1, <3>1, LeastElement
  <2>3. PICK d \in D : size(d) = k /\ t[d] # L(d)
    BY <2>2
  <2>4. ASSUME NEW e \in D, size(e) < size(d) PROVE t[e] = L(e)
    <3>1. size(e) \in Nat /\ size(d) \in Nat
      BY <1>2
    <3> HIDE DEF size
    <3> QED
      BY <2>2, <2>3, <2>4, <3>1
  <2>5. ASSUME d[1] # g.a2, d[2] # g.b2
        PROVE  /\ size(<<d[1] + 1, d[2] + 1>>) < size(d)
               /\ size(<<d[1] + 1, d[2]>>) < size(d)
               /\ size(<<d[1], d[2] + 1>>) < size(d)
    BY <1>2
  <2> HIDE DEF size
  <2>6. Body(t, d) = L(d)
    BY <1>3, <1>4, <2>4, <2>5
  <2> QED
    BY <1>7, <2>3, <2>6
<1>9. <<i, j>> \in D
  BY DEF D
<1> QED
  BY <1>8, <1>9 DEF L, t

-----------------------------------------------------------------------------
(* Deletes before inserts.                                                 *)
DeletesFirst(es) == \A k \in 1..(Len(es) - 1) : ~(es[k].op = "insert" /\ es[k + 1].op = "delete")
EndsIn(es, op) == es # <<>> /\ es[Len(es)].op = op
AllAre(ts, op) == \A k \in 1..Len(ts) : ts[k].op = op

(* Diffing the region does not begin with a delete.                        *)
NoDelete(g) ==
  \/ Width(g) = 0
  \/ Height(g) > 0 /\ (At(a, g.a1) = At(b, g.b1) \/ ~DeletesNext(g))
AfterInsert(g) == \/ g.task = "keep"
                  \/ g.task = "lcs" /\ NoDelete(g)
                  \/ g.task = "replace" /\ Width(g) = 0

OrderInv == /\ DeletesFirst(edits)
            /\ todo # <<>> /\ EndsIn(edits, "insert") => AfterInsert(Top)

LEMMA DeletesFirstConcat ==
  ASSUME NEW es \in Seq(Edit), NEW ts \in Seq(Edit), NEW op, DeletesFirst(es), AllAre(ts, op),
         EndsIn(es, "insert") /\ op = "delete" => ts = <<>>
  PROVE  /\ DeletesFirst(es \o ts)
         /\ ts = <<>> => es \o ts = es
         /\ ts # <<>> => (EndsIn(es \o ts, "insert") <=> op = "insert")
<1> DEFINE c == es \o ts
<1>1. /\ Len(es) \in Nat /\ Len(ts) \in Nat
      /\ Len(c) = Len(es) + Len(ts) /\ c \in Seq(Edit)
      /\ \A k \in 1..Len(es) : c[k] = es[k]
      /\ \A k \in 1..Len(ts) : c[Len(es) + k] = ts[k]
  BY Concatenated
<1> USE DEF AllAre
<1>2. ts = <<>> => c = es
  BY ConcatEmptySeq
<1>3. ts # <<>> => Len(ts) > 0 /\ c # <<>>
  BY <1>1, EmptyLen
<1>4. es # <<>> <=> Len(es) > 0
  BY <1>1, EmptyLen
<1> HIDE DEF c
<1>5. ASSUME NEW k \in 1..(Len(c) - 1) PROVE ~(c[k].op = "insert" /\ c[k + 1].op = "delete")
  <2>1. CASE k < Len(es)
    <3>1. k \in 1..(Len(es) - 1) /\ k \in 1..Len(es) /\ k + 1 \in 1..Len(es)
      BY <1>1, <2>1
    <3> QED
      BY <1>1, <3>1 DEF DeletesFirst
  <2>2. CASE k = Len(es)
    <3>1. 1 \in 1..Len(ts) /\ ts # <<>> /\ c[k] = es[k] /\ c[k + 1] = ts[1] /\ ts[1].op = op /\ es # <<>>
      BY <1>1, <1>4, <2>2, EmptyLen
    <3> QED
      BY <2>2, <3>1 DEF EndsIn
  <2>3. CASE k > Len(es)
    <3>1. k - Len(es) \in 1..Len(ts) /\ k + 1 - Len(es) \in 1..Len(ts)
          /\ k = Len(es) + (k - Len(es)) /\ k + 1 = Len(es) + (k + 1 - Len(es))
      BY <1>1, <2>3
    <3>2. c[k] = ts[k - Len(es)]
      BY <1>1, <3>1
    <3>3. c[k].op = op
      BY <3>1, <3>2
    <3>4. c[k + 1] = ts[k + 1 - Len(es)]
      BY <1>1, <3>1
    <3>5. c[k + 1].op = op
      BY <3>1, <3>4
    <3> QED
      BY <3>3, <3>5
  <2> QED
    BY <1>1, <2>1, <2>2, <2>3
<1>6. ts # <<>> => c[Len(c)].op = op
  <2>1. ASSUME ts # <<>> PROVE Len(ts) \in 1..Len(ts)
    BY <1>1, <1>3, <2>1
  <2> QED
    BY <1>1, <2>1
<1>7. DeletesFirst(c)
  BY <1>5 DEF DeletesFirst
<1> QED
  BY <1>2, <1>3, <1>6, <1>7 DEF EndsIn, c

(* Unchanged input leaves what a region calls for unchanged.               *)
LEMMA AfterInsertStable ==
  ASSUME UNCHANGED input, NEW g, Top' = g
  PROVE  AfterInsert(Top)' <=> AfterInsert(g)
<1>1. a' = a /\ b' = b
  BY DEF input
<1>2. Table(Top)' = Table(g)
  BY <1>1 DEF Table, At, Maximum
<1>3. DeletesNext(Top)' <=> DeletesNext(g)
  BY <1>2 DEF DeletesNext
<1> QED
  BY <1>1, <1>3 DEF AfterInsert, NoDelete, At, Width, Height

(* The region that a step leaves on top.                                   *)
LEMMA TopAfterPush ==
  ASSUME NEW g \in Sound, Push(<<g>>), Typed, todo # <<>>
  PROVE  todo' # <<>> /\ Top' = g
<1>1. Tail(todo) \in Seq(Sound) /\ todo' = <<g>> \o Tail(todo)
  BY HeadTailProperties DEF Typed, Push
<1>2. <<g>> \in Seq(Sound) /\ Len(<<g>>) = 1 /\ <<g>>[1] = g
  BY SingleRegion
<1>3. /\ todo' \in Seq(Sound) /\ Len(todo') = 1 + Len(Tail(todo)) /\ Len(Tail(todo)) \in Nat
      /\ todo'[1] = g
  BY <1>1, <1>2, Concatenated
<1>4. todo' # <<>>
  BY <1>3, EmptyLen
<1> QED
  BY <1>3, <1>4, HeadTailProperties DEF Top

(* A step that appends nothing, from a region before which no insert ends  *)
(* the script.                                                             *)
LEMMA OrderQuiet ==
  ASSUME OrderInv, todo # <<>>, Top.task \in {"diff", "anchored"}, edits' = edits
  PROVE  OrderInv'
<1>1. ~EndsIn(edits, "insert")
  BY DEF OrderInv, AfterInsert
<1> QED
  BY <1>1 DEF OrderInv, DeletesFirst, EndsIn

LEMMA OrderKeep ==
  ASSUME IInv, OrderInv, Keep
  PROVE  OrderInv'
<1> DEFINE ts == Edits("equal", a, Top.a1, Top.a2)
<1>1. todo # <<>> /\ Top.task = "keep" /\ edits' = edits \o ts
  BY DEF Keep, Pending
<1>2. /\ Top.a1 \in Nat /\ Top.a2 \in Nat /\ Top.a1 < Top.a2 /\ Top.a2 <= Len(a)
      /\ a \in Seq(Text) /\ edits \in Seq(Edit)
  BY <1>1, TopFacts DEF Sound, Width
<1>3. /\ ts \in Seq(Edit) /\ Len(ts) = Top.a2 - Top.a1
      /\ \A k \in 1..(Top.a2 - Top.a1) : ts[k].op = "equal"
  <2>1. "equal" \in Op
    BY DEF Op
  <2>2. Shows(ts, "equal", a, Top.a1, Top.a2)
    BY <1>2, <2>1, EditsBlock
  <2> QED
    BY <2>2 DEF Shows
<1> HIDE DEF ts
<1>4. ts # <<>>
  BY <1>2, <1>3, EmptyLen
<1>5. DeletesFirst(edits \o ts) /\ ~EndsIn(edits \o ts, "insert")
  <2>1. DeletesFirst(edits) /\ AllAre(ts, "equal")
    BY <1>3 DEF OrderInv, AllAre
  <2> QED
    BY <1>2, <1>3, <1>4, <2>1, DeletesFirstConcat
<1> QED
  BY <1>1, <1>5 DEF OrderInv, DeletesFirst, EndsIn

(* After a region is replaced lines are copied, if anything is left.       *)
LEMMA OrderReplace ==
  ASSUME IInv, OrderInv, Replace
  PROVE  OrderInv'
<1> DEFINE ds == Edits("delete", a, Top.a1, Top.a2)
           is == Edits("insert", b, Top.b1, Top.b2)
<1>1. /\ todo # <<>> /\ Top.task = "replace" /\ Push(<<>>) /\ edits' = (edits \o ds) \o is
      /\ UNCHANGED <<input, lines, oi, ni>>
  BY DEF Replace, Pending
<1>2. /\ Top \in Sound /\ Top.a1 \in Nat /\ Top.a2 \in Nat /\ Top.b1 \in Nat /\ Top.b2 \in Nat
      /\ Top.a1 <= Top.a2 /\ Top.a2 <= Len(a) /\ Top.b1 <= Top.b2 /\ Top.b2 <= Len(b)
      /\ a \in Seq(Text) /\ b \in Seq(Text) /\ edits \in Seq(Edit)
  BY <1>1, TopFacts
<1>3. /\ ds \in Seq(Edit) /\ Len(ds) = Top.a2 - Top.a1
      /\ \A k \in 1..(Top.a2 - Top.a1) : ds[k].op = "delete"
  <2>1. "delete" \in Op
    BY DEF Op
  <2>2. Shows(ds, "delete", a, Top.a1, Top.a2)
    BY <1>2, <2>1, EditsBlock
  <2> QED
    BY <2>2 DEF Shows
<1>4. /\ is \in Seq(Edit) /\ Len(is) = Top.b2 - Top.b1
      /\ \A k \in 1..(Top.b2 - Top.b1) : is[k].op = "insert"
  <2>1. "insert" \in Op
    BY DEF Op
  <2>2. Shows(is, "insert", b, Top.b1, Top.b2)
    BY <1>2, <2>1, EditsBlock
  <2> QED
    BY <2>2 DEF Shows
<1> HIDE DEF ds, is
<1>5. EndsIn(edits, "insert") => ds = <<>>
  <2>1. EndsIn(edits, "insert") => Width(Top) = 0
    BY <1>1 DEF OrderInv, AfterInsert
  <2>2. Width(Top) = 0 => Len(ds) = 0
    BY <1>2, <1>3 DEF Width
  <2> QED
    BY <1>3, <2>1, <2>2, EmptyLen
<1>6. DeletesFirst(edits \o ds) /\ edits \o ds \in Seq(Edit)
  <2>1. DeletesFirst(edits) /\ AllAre(ds, "delete")
    BY <1>3 DEF OrderInv, AllAre
  <2> QED
    BY <1>2, <1>3, <1>5, <2>1, DeletesFirstConcat, Concatenated
<1>7. DeletesFirst((edits \o ds) \o is)
  <2>1. AllAre(is, "insert")
    BY <1>4 DEF AllAre
  <2> QED
    BY <1>4, <1>6, <2>1, DeletesFirstConcat
<1>8. todo' # <<>> => Top'.task = "keep"
  <2>1. todo' = <<>> \o Tail(todo) /\ todo \in Seq(Sound) /\ Alternate(todo)
    BY <1>1 DEF Push, IInv, Typed
  <2>2. /\ Tail(todo) \in Seq(Sound) /\ Len(Tail(todo)) = Len(todo) - 1 /\ Len(todo) \in Nat
        /\ \A k \in 1..Len(Tail(todo)) : Tail(todo)[k] = todo[k + 1]
    BY <1>1, <2>1, HeadTailProperties, LenProperties
  <2>3. todo' = Tail(todo)
    BY <2>1, <2>2, ConcatEmptySeq
  <2>4. ASSUME todo' # <<>> PROVE Top'.task = "keep"
    <3>1. Len(Tail(todo)) # 0
      BY <2>2, <2>3, <2>4, EmptyLen
    <3>2. 1 \in 1..Len(Tail(todo)) /\ 1 \in 1..(Len(todo) - 1) /\ 1 + 1 = 2
      BY <2>2, <3>1
    <3>3. Head(todo') = todo[2]
      BY <2>2, <2>3, <2>4, <3>2
    <3>4. todo[1] = Top
      BY <1>1, <2>1 DEF Top
    <3>5. todo[1].task = "keep" \/ todo[1 + 1].task = "keep"
      BY <2>1, <3>2 DEF Alternate
    <3> QED
      BY <1>1, <3>2, <3>3, <3>4, <3>5 DEF Top
  <2> QED
    BY <2>4
<1> QED
  BY <1>1, <1>7, <1>8 DEF OrderInv, DeletesFirst, AfterInsert

LEMMA OrderFlush ==
  ASSUME IInv, OrderInv, Flush
  PROVE  OrderInv'
<1> DEFINE g == [Top EXCEPT !.task = "replace"]
<1>1. /\ todo # <<>> /\ Top.task = "lcs" /\ Push(<<g>>) /\ (Width(Top) = 0 \/ Height(Top) = 0)
      /\ UNCHANGED input /\ edits' = edits
  BY DEF Flush, Pending
<1>2. Top \in Sound /\ Top.b1 \in Nat /\ Top.b2 \in Nat
  BY <1>1, TopFacts
<1>3. g \in Sound /\ g.task = "replace" /\ Width(g) = Width(Top)
  BY <1>2 DEF Sound, Region, Task, Width
<1> HIDE DEF g
<1>4. todo' # <<>> /\ Top' = g
  BY <1>1, <1>3, TopAfterPush DEF IInv
<1>5. EndsIn(edits, "insert") => AfterInsert(g)
  BY <1>1, <1>2, <1>3 DEF OrderInv, AfterInsert, NoDelete
<1>6. AfterInsert(Top)' <=> AfterInsert(g)
  BY <1>1, <1>4, AfterInsertStable
<1> QED
  BY <1>1, <1>5, <1>6 DEF OrderInv, DeletesFirst, EndsIn

(* After an insert the walk does not turn to deletes: the longest common   *)
(* subsequence that is left is one without the line at i.                  *)
LEMMA InsertGoesOn ==
  ASSUME NEW g, NEW h, g.a1 \in Nat, g.a2 \in Nat, g.b1 \in Nat, g.b2 \in Nat,
         g.a1 < g.a2, g.b1 < g.b2, ~DeletesNext(g),
         h.a1 = g.a1, h.a2 = g.a2, h.b1 = g.b1 + 1, h.b2 = g.b2
  PROVE  NoDelete(h)
<1> DEFINE i  == g.a1
           i1 == g.a1 + 1
           i2 == g.a2
           j1 == g.b1 + 1
           j2 == g.b2
           k  == g.b1 + 2
<1>1. /\ i \in Nat /\ i1 \in Nat /\ i2 \in Nat /\ j1 \in Nat /\ j2 \in Nat /\ i < i2 /\ i1 <= i2
      /\ j1 <= j2 /\ i1 = i + 1 /\ g.b1 \in Nat /\ g.b1 <= j1 /\ k = j1 + 1 /\ k \in Nat
      /\ i \in g.a1..g.a2 /\ i1 \in g.a1..g.a2 /\ g.b1 \in g.b1..g.b2 /\ j1 \in g.b1..g.b2
  OBVIOUS
<1>2. h.a1 = i /\ h.a2 = i2 /\ h.b1 = j1 /\ h.b2 = j2
  OBVIOUS
<1>3. Longest(i1, i2, g.b1, j2) < Longest(i, i2, j1, j2)
  <2>1. Table(g)[<<i1, g.b1>>] = Longest(i1, i2, g.b1, j2) /\ Table(g)[<<i, j1>>] = Longest(i, i2, j1, j2)
    BY <1>1, TableIsLongest
  <2>2. ~(Table(g)[<<i1, g.b1>>] >= Table(g)[<<i, j1>>])
    BY DEF DeletesNext
  <2>3. Longest(i1, i2, g.b1, j2) \in Nat /\ Longest(i, i2, j1, j2) \in Nat
    BY <1>1, LongestIsNat
  <2> QED
    BY <2>1, <2>2, <2>3
<1> HIDE DEF i, i1, i2, j1, j2, k
<1>4. /\ Longest(i1, i2, g.b1, j2) \in Nat /\ Longest(i, i2, j1, j2) \in Nat
      /\ Longest(i1, i2, j1, j2) \in Nat /\ Longest(i, i2, k, j2) \in Nat
  BY <1>1, LongestIsNat
<1>5. j1 # j2
  <2>1. ASSUME j1 = j2 PROVE Longest(i, i2, j1, j2) = 0
    BY <1>1, <2>1, LongestEmpty
  <2> QED
    BY <1>3, <1>4, <2>1
<1>6. Longest(i1, i2, j1, j2) <= Longest(i1, i2, g.b1, j2)
  <2>1. i1 <= i1 /\ i2 <= i2 /\ j2 <= j2
    BY <1>1
  <2> QED
    BY <1>1, <2>1, LongestInside
<1>7. ASSUME At(a, i) # At(b, j1)
      PROVE  Longest(i1, i2, j1, j2) < Longest(i, i2, k, j2)
  <2>1. Longest(i, i2, j1, j2) = Maximum(Longest(i + 1, i2, j1, j2), Longest(i, i2, j1 + 1, j2))
    <3>1. StepFacts(i, i2, j1, j2)
      BY <1>1, LongestStep
    <3> QED
      BY <1>1, <1>5, <1>7, <3>1 DEF StepFacts
  <2>2. Longest(i, i2, j1, j2) = Maximum(Longest(i1, i2, j1, j2), Longest(i, i2, k, j2))
    BY <1>1, <2>1
  <2> QED
    BY <1>3, <1>4, <1>6, <2>2 DEF Maximum
<1>8. ASSUME At(a, i) # At(b, j1)
      PROVE  ~DeletesNext(h)
  <2>1. i1 \in h.a1..h.a2 /\ j1 \in h.b1..h.b2 /\ i \in h.a1..h.a2 /\ k \in h.b1..h.b2
    BY <1>1, <1>2, <1>5
  <2>2. /\ Table(h)[<<i1, j1>>] = Longest(i1, i2, j1, j2)
        /\ Table(h)[<<i, k>>] = Longest(i, i2, k, j2)
    BY <1>1, <1>2, <2>1, TableIsLongest
  <2>3. DeletesNext(h) <=> Table(h)[<<i1, j1>>] >= Table(h)[<<i, k>>]
    BY <1>1, <1>2 DEF DeletesNext
  <2> QED
    BY <1>4, <1>7, <1>8, <2>2, <2>3
<1>9. Height(h) > 0
  BY <1>1, <1>2, <1>5 DEF Height
<1> QED
  BY <1>2, <1>8, <1>9 DEF NoDelete

LEMMA OrderEmit ==
  ASSUME IInv, OrderInv, NEW op \in Op, NEW text \in Text, Emit(op, text),
         op = "delete" => ~EndsIn(edits, "insert"),
         op = "insert" => todo' # <<>> /\ AfterInsert(Top)'
  PROVE  OrderInv'
<1> DEFINE e == [op |-> op, text |-> text]
<1>1. edits \in Seq(Edit) /\ e \in Edit /\ e.op = op /\ edits' = Append(edits, e)
  BY DEF IInv, Typed, Edit, Emit
<1> HIDE DEF e
<1>2. <<e>> \in Seq(Edit) /\ Len(<<e>>) = 1 /\ <<e>>[1] = e /\ <<e>> # <<>>
  BY <1>1
<1>3. edits' = edits \o <<e>>
  BY <1>1, AppendIsConcat
<1>4. AllAre(<<e>>, op) /\ DeletesFirst(edits)
  BY <1>1, <1>2 DEF AllAre, OrderInv
<1>5. /\ DeletesFirst(edits \o <<e>>)
      /\ EndsIn(edits \o <<e>>, "insert") => op = "insert"
  BY <1>1, <1>2, <1>4, DeletesFirstConcat
<1> QED
  BY <1>3, <1>5 DEF OrderInv, DeletesFirst, EndsIn

LEMMA OrderWalk ==
  ASSUME IInv, OrderInv, Walk
  PROVE  OrderInv'
<1>1. /\ todo # <<>> /\ Top.task = "lcs" /\ Width(Top) > 0 /\ Height(Top) > 0
      /\ UNCHANGED input /\ Typed
  BY DEF Walk, Pending, IInv
<1>2. /\ Top \in Sound /\ Top.a1 \in Nat /\ Top.a2 \in Nat /\ Top.b1 \in Nat /\ Top.b2 \in Nat
      /\ Top.a2 <= Len(a) /\ Top.b2 <= Len(b) /\ Len(a) \in Nat /\ Len(b) \in Nat
      /\ a \in Seq(Text) /\ b \in Seq(Text)
  BY <1>1, TopFacts
<1>3. Top.a1 < Top.a2 /\ Top.b1 < Top.b2
  BY <1>1, <1>2 DEF Width, Height
<1>4. At(a, Top.a1) \in Text /\ At(b, Top.b1) \in Text
  <2>1. Top.a1 + 1 \in 1..Len(a) /\ Top.b1 + 1 \in 1..Len(b)
    BY <1>2, <1>3
  <2> QED
    BY <1>2, <2>1, ElementOfSeq DEF At
<1>5. CASE Emit("equal", At(a, Top.a1))
  BY <1>4, <1>5, OrderEmit DEF Op
<1>6. CASE At(a, Top.a1) # At(b, Top.b1) /\ DeletesNext(Top) /\ Emit("delete", At(a, Top.a1))
  <2>1. ~EndsIn(edits, "insert")
    BY <1>1, <1>2, <1>6 DEF OrderInv, AfterInsert, NoDelete
  <2> QED
    BY <1>4, <1>6, <2>1, OrderEmit DEF Op
<1>7. CASE ~DeletesNext(Top) /\ Emit("insert", At(b, Top.b1)) /\ Push(<<[Top EXCEPT !.b1 = @ + 1]>>)
  <2> DEFINE h == [Top EXCEPT !.b1 = @ + 1]
  <2>1. /\ Top = [task |-> Top.task, a1 |-> Top.a1, a2 |-> Top.a2, b1 |-> Top.b1, b2 |-> Top.b2]
    BY <1>2 DEF Sound, Region
  <2>2. h = [task |-> "lcs", a1 |-> Top.a1, a2 |-> Top.a2, b1 |-> Top.b1 + 1, b2 |-> Top.b2]
    BY <1>1, <2>1
  <2> HIDE DEF h
  <2>3. h.task = "lcs" /\ h.a1 = Top.a1 /\ h.a2 = Top.a2 /\ h.b1 = Top.b1 + 1 /\ h.b2 = Top.b2
    BY <2>2
  <2>4. h \in Sound
    <3>1. h \in Region
      BY <1>2, <2>2 DEF Region, Task
    <3> QED
      BY <1>2, <1>3, <2>3, <3>1 DEF Sound
  <2>5. todo' # <<>> /\ Top' = h
    BY <1>1, <1>7, <2>4, TopAfterPush DEF h
  <2>6. AfterInsert(h)
    BY <1>2, <1>3, <1>7, <2>3, InsertGoesOn DEF AfterInsert
  <2>7. AfterInsert(Top)'
    BY <1>1, <2>5, <2>6, AfterInsertStable
  <2> QED
    BY <1>4, <1>7, <2>5, <2>7, OrderEmit DEF Op
<1> QED
  BY <1>5, <1>6, <1>7 DEF Walk

(* diff.go:176-177: deletes come before inserts wherever the sides diverge:*)
(* no insert is followed by a delete, neither inside a region, whose walk  *)
(* turns from inserting only at an equal line, nor at the seam of two.     *)
THEOREM DeletesFirstEverywhere == Spec => []DeletesBeforeInserts
<1>1. Init => OrderInv
  <2>1. ASSUME Init PROVE edits = <<>> /\ Len(edits) = 0
    BY <2>1, EmptySeq DEF Init
  <2> QED
    BY <2>1 DEF OrderInv, DeletesFirst, EndsIn
<1>2. IInv /\ OrderInv /\ [Next]_vars => OrderInv'
  <2>1. ASSUME IInv, OrderInv, Trim PROVE OrderInv'
    <3>1. todo # <<>> /\ Top.task \in {"diff", "anchored"} /\ edits' = edits
      BY <2>1 DEF Trim, Pending
    <3> QED
      BY <2>1, <3>1, OrderQuiet
  <2>2. ASSUME IInv, OrderInv, Split PROVE OrderInv'
    <3>1. todo # <<>> /\ Top.task \in {"diff", "anchored"} /\ edits' = edits
      BY <2>2 DEF Split, Pending
    <3> QED
      BY <2>2, <3>1, OrderQuiet
  <2>3. ASSUME OrderInv, Resolve PROVE OrderInv'
    BY <2>3 DEF Resolve, OrderInv, DeletesFirst
  <2>4. ASSUME OrderInv, UNCHANGED vars PROVE OrderInv'
    <3>1. /\ UNCHANGED input /\ todo' = todo /\ edits' = edits /\ Top' = Top
      BY <2>4 DEF vars, input, Top
    <3>2. AfterInsert(Top)' <=> AfterInsert(Top)
      BY <3>1, AfterInsertStable
    <3> QED
      BY <2>4, <3>1, <3>2 DEF OrderInv, DeletesFirst, EndsIn
  <2> QED
    BY <2>1, <2>2, <2>3, <2>4, OrderKeep, OrderReplace, OrderWalk, OrderFlush DEF Next
<1>3. OrderInv => DeletesBeforeInserts
  BY DEF OrderInv, DeletesFirst, DeletesBeforeInserts
<1> QED
  BY <1>1, <1>2, <1>3, ScriptInvariant, PTL DEF Spec

-----------------------------------------------------------------------------
(* Minimality.  The rank of an element is the number of smaller ones.      *)
Rank(S, k) == Cardinality({l \in S : l < k})

LEMMA RankFacts ==
  ASSUME NEW S \in SUBSET Nat, IsFiniteSet(S)
  PROVE  /\ Cardinality(S) \in Nat
         /\ \A k \in S : Rank(S, k) \in 0..(Cardinality(S) - 1)
         /\ \A k, l \in S : k < l <=> Rank(S, k) < Rank(S, l)
         /\ \A r \in 0..(Cardinality(S) - 1) : \E k \in S : Rank(S, k) = r
<1> DEFINE B(k) == {l \in S : l < k}
           n == Cardinality(S)
<1>1. n \in Nat
  BY FS_CardinalityType
<1>2. ASSUME NEW k \in S PROVE IsFiniteSet(B(k)) /\ Cardinality(B(k)) \in 0..(n - 1)
  <2>1. B(k) \in SUBSET S /\ B(k) # S
    <3>1. k \notin B(k)
      OBVIOUS
    <3> QED
      BY <3>1
  <2> HIDE DEF B
  <2>2. IsFiniteSet(B(k)) /\ Cardinality(B(k)) <= n /\ Cardinality(B(k)) # n
    BY <2>1, FS_Subset
  <2>3. Cardinality(B(k)) \in Nat
    BY <2>2, FS_CardinalityType
  <2> QED
    BY <1>1, <2>2, <2>3
<1>3. ASSUME NEW k \in S, NEW l \in S, k < l PROVE Cardinality(B(k)) < Cardinality(B(l))
  <2>1. B(k) \in SUBSET B(l) /\ B(k) # B(l)
    <3>1. k \in B(l) /\ k \notin B(k)
      BY <1>3
    <3>2. ASSUME NEW m \in S, m < k PROVE m < l
      BY <1>3, <3>2
    <3> QED
      BY <3>1, <3>2
  <2>2. IsFiniteSet(B(l)) /\ Cardinality(B(l)) \in Nat /\ Cardinality(B(k)) \in Nat
    BY <1>1, <1>2
  <2> HIDE DEF B
  <2>3. Cardinality(B(k)) <= Cardinality(B(l)) /\ Cardinality(B(k)) # Cardinality(B(l))
    BY <2>1, <2>2, FS_Subset
  <2> QED
    BY <2>2, <2>3
<1>4. ASSUME NEW k \in S, NEW l \in S PROVE k < l <=> Cardinality(B(k)) < Cardinality(B(l))
  <2>1. Cardinality(B(k)) \in Nat /\ Cardinality(B(l)) \in Nat /\ k \in Nat /\ l \in Nat
    BY <1>1, <1>2
  <2>2. k < l => Cardinality(B(k)) < Cardinality(B(l))
    BY <1>3
  <2>3. l < k => Cardinality(B(l)) < Cardinality(B(k))
    BY <1>3
  <2> HIDE DEF B
  <2>4. k = l \/ k < l \/ l < k
    BY <2>1
  <2> QED
    BY <2>1, <2>2, <2>3, <2>4
<1> DEFINE f == [k \in S |-> Cardinality(B(k))]
           R == 0..(n - 1)
<1> HIDE DEF B
<1>5. f \in Injection(S, R)
  <2>1. f \in [S -> R]
    BY <1>2
  <2>2. ASSUME NEW k \in S, NEW l \in S, f[k] = f[l] PROVE k = l
    <3>1. Cardinality(B(k)) = Cardinality(B(l)) /\ Cardinality(B(k)) \in Nat
      BY <1>1, <1>2, <2>2
    <3>2. ~(k < l) /\ ~(l < k) /\ k \in Nat /\ l \in Nat
      BY <1>4, <3>1
    <3> QED
      BY <3>2
  <2> HIDE DEF f
  <2> QED
    BY <2>1, <2>2 DEF Injection, IsInjective
<1>6. IsFiniteSet(R) /\ Cardinality(R) = n
  <2>1. 0 \in Int /\ n - 1 \in Int
    BY <1>1
  <2>2. IsFiniteSet(R) /\ Cardinality(R) = IF 0 > n - 1 THEN 0 ELSE (n - 1) - 0 + 1
    BY <2>1, FS_Interval
  <2> HIDE DEF R
  <2> QED
    BY <1>1, <2>2
<1>7. f \in Surjection(S, R)
  <2> HIDE DEF f, R, n
  <2> QED
    BY <1>5, <1>6, FS_Injection DEF n
<1>8. ASSUME NEW r \in R PROVE \E k \in S : Cardinality(B(k)) = r
  <2>1. \E k \in S : f[k] = r
    <3> HIDE DEF f, R
    <3> QED
      BY <1>7 DEF Surjection
  <2> QED
    BY <2>1
<1> QED
  BY <1>1, <1>2, <1>4, <1>8 DEF Rank, B

(* Lines that agree rank by rank are a matching.                           *)
LEMMA CommonIsMatching ==
  ASSUME a \in Seq(Text), b \in Seq(Text), NEW n \in Nat,
         NEW is \in kSubset(n, DOMAIN a), NEW js \in kSubset(n, DOMAIN b), CommonTo(is, js)
  PROVE  n <= Longest(0, Len(a), 0, Len(b))
<1> DEFINE M == {m \in Cells(0, Len(a), 0, Len(b)) :
                   m[1] + 1 \in is /\ m[2] + 1 \in js /\ Rank(is, m[1] + 1) = Rank(js, m[2] + 1)}
<1>1. /\ Len(a) \in Nat /\ Len(b) \in Nat /\ 0 \in Nat
      /\ is \in SUBSET (1..Len(a)) /\ js \in SUBSET (1..Len(b))
      /\ is \in SUBSET Nat /\ js \in SUBSET Nat
      /\ Cardinality(is) = n /\ Cardinality(js) = n
  BY LenProperties DEF kSubset
<1>2. IsFiniteSet(is) /\ IsFiniteSet(js)
  <2>1. 1 \in Int /\ Len(a) \in Int /\ Len(b) \in Int
    BY <1>1
  <2>2. IsFiniteSet(1..Len(a)) /\ IsFiniteSet(1..Len(b))
    BY <2>1, FS_Interval
  <2> QED
    BY <1>1, <2>2, FS_Subset
<1>3. /\ \A k \in is : Rank(is, k) \in 0..(n - 1)
      /\ \A k, l \in is : k < l <=> Rank(is, k) < Rank(is, l)
  BY <1>1, <1>2, RankFacts
<1>4. /\ \A k, l \in js : k < l <=> Rank(js, k) < Rank(js, l)
      /\ \A r \in 0..(n - 1) : \E k \in js : Rank(js, k) = r
  BY <1>1, <1>2, RankFacts
<1>5. ASSUME NEW m \in M
      PROVE  /\ m = <<m[1], m[2]>> /\ m[1] \in Nat /\ m[2] \in Nat
             /\ m[1] + 1 \in is /\ m[2] + 1 \in js /\ Rank(is, m[1] + 1) = Rank(js, m[2] + 1)
  BY <1>1, CellFacts
<1>6. M \in Matchings(0, Len(a), 0, Len(b))
  <2>1. ASSUME NEW m \in M PROVE At(a, m[1]) = At(b, m[2])
    BY <1>5 DEF CommonTo, Rank, At
  <2>2. ASSUME NEW m \in M, NEW l \in M PROVE m[1] < l[1] <=> m[2] < l[2]
    <3> HIDE DEF M
    <3>1. m[1] < l[1] <=> m[1] + 1 < l[1] + 1
      BY <1>5
    <3>2. m[2] < l[2] <=> m[2] + 1 < l[2] + 1
      BY <1>5
    <3>3. m[1] + 1 < l[1] + 1 <=> Rank(is, m[1] + 1) < Rank(is, l[1] + 1)
      BY <1>3, <1>5
    <3>4. m[2] + 1 < l[2] + 1 <=> Rank(js, m[2] + 1) < Rank(js, l[2] + 1)
      BY <1>4, <1>5
    <3> QED
      BY <1>5, <3>1, <3>2, <3>3, <3>4
  <2> QED
    BY <2>1, <2>2 DEF Matchings, Ordered
<1> DEFINE f == [m \in M |-> m[1] + 1]
<1>7. f \in Surjection(M, is)
  <2>1. f \in [M -> is]
    BY <1>5
  <2>2. ASSUME NEW i \in is PROVE \E m \in M : f[m] = i
    <3>1. PICK j \in js : Rank(js, j) = Rank(is, i)
      BY <1>3, <1>4
    <3> DEFINE m == <<i - 1, j - 1>>
    <3>2. m[1] = i - 1 /\ m[2] = j - 1 /\ m[1] + 1 = i /\ m[2] + 1 = j
      BY <1>1
    <3>3. m \in Cells(0, Len(a), 0, Len(b))
      <4>1. i - 1 \in 0..(Len(a) - 1) /\ j - 1 \in 0..(Len(b) - 1)
        BY <1>1
      <4> QED
        BY <4>1 DEF Cells
    <3> HIDE DEF m
    <3>4. m \in M
      BY <3>1, <3>2, <3>3
    <3> QED
      BY <3>2, <3>4
  <2> HIDE DEF f, M
  <2> QED
    BY <2>1, <2>2 DEF Surjection
<1> HIDE DEF f, M
<1>8. IsFiniteSet(M) /\ Cardinality(M) \in Nat
  BY <1>1, <1>6, MatchingFinite
<1>9. Cardinality(is) <= Cardinality(M)
  BY <1>7, <1>8, FS_Surjection
<1>10. Cardinality(M) <= Longest(0, Len(a), 0, Len(b)) /\ Longest(0, Len(a), 0, Len(b)) \in Nat
  BY <1>1, <1>6, LongestBounds, LongestIsNat
<1> QED
  BY <1>1, <1>8, <1>9, <1>10

(* Any number of lines less at the front, or at the back.                  *)
LEMMA LongestDropPrefix ==
  ASSUME NEW i \in Nat, NEW i2 \in Nat, NEW j \in Nat, NEW j2 \in Nat, NEW p \in Nat
  PROVE  Longest(i, i2, j, j2) <= Longest(i + p, i2, j + p, j2) + p
<1> DEFINE L(n) == Longest(i + n, i2, j + n, j2)
           S == {n \in Nat : ~(L(0) <= L(n) + n)}
<1>1. ASSUME NEW n \in Nat PROVE L(n) \in Nat
  <2>1. i + n \in Nat /\ j + n \in Nat
    OBVIOUS
  <2> QED
    BY <2>1, LongestIsNat
<1>2. ASSUME NEW n \in Nat PROVE L(n) <= L(n + 1) + 1
  <2> DEFINE x == i + n
             y == j + n
  <2>1. x \in Nat /\ y \in Nat /\ i + (n + 1) = x + 1 /\ j + (n + 1) = y + 1
    OBVIOUS
  <2> HIDE DEF x, y
  <2>2. Longest(x, i2, y, j2) <= Longest(x + 1, i2, y + 1, j2) + 1
    BY <2>1, LongestDropFront
  <2> QED
    BY <2>1, <2>2 DEF x, y
<1>3. L(0) = Longest(i, i2, j, j2)
  <2>1. i + 0 = i /\ j + 0 = j
    OBVIOUS
  <2> QED
    BY <2>1
<1> HIDE DEF L
<1>4. S = {}
  <2>1. SUFFICES ASSUME S # {} PROVE FALSE
    OBVIOUS
  <2>2. PICK n \in S : \A m \in S : n <= m
    <3>1. S \in SUBSET Nat
      OBVIOUS
    <3> HIDE DEF S
    <3> QED
      BY <2>1, <3>1, LeastElement
  <2>3. n # 0
    BY <1>1, <2>2
  <2>4. n - 1 \in Nat /\ n - 1 \notin S /\ (n - 1) + 1 = n
    BY <2>2, <2>3
  <2>5. L(0) <= L(n - 1) + (n - 1)
    BY <2>4
  <2>6. L(n - 1) <= L(n) + 1
    BY <1>2, <2>4
  <2> QED
    BY <1>1, <2>2, <2>4, <2>5, <2>6
<1>5. L(0) <= L(p) + p
  BY <1>4
<1> QED
  BY <1>3, <1>5 DEF L

LEMMA LongestDropSuffix ==
  ASSUME NEW i \in Nat, NEW i2 \in Nat, NEW j \in Nat, NEW j2 \in Nat,
         NEW q \in Nat, q <= i2, q <= j2
  PROVE  Longest(i, i2, j, j2) <= Longest(i, i2 - q, j, j2 - q) + q
<1> DEFINE L(n) == Longest(i, i2 - n, j, j2 - n)
           S == {n \in 0..q : ~(L(0) <= L(n) + n)}
<1>1. ASSUME NEW n \in 0..q PROVE L(n) \in Nat
  <2>1. i2 - n \in Nat /\ j2 - n \in Nat
    OBVIOUS
  <2> QED
    BY <2>1, LongestIsNat
<1>2. ASSUME NEW n \in 0..(q - 1) PROVE L(n) <= L(n + 1) + 1
  <2> DEFINE x == i2 - n
             y == j2 - n
  <2>1. x \in Nat \ {0} /\ y \in Nat \ {0} /\ i2 - (n + 1) = x - 1 /\ j2 - (n + 1) = y - 1
    OBVIOUS
  <2> HIDE DEF x, y
  <2>2. Longest(i, x, j, y) <= Longest(i, x - 1, j, y - 1) + 1
    BY <2>1, LongestDropBack
  <2> QED
    BY <2>1, <2>2 DEF x, y
<1>3. L(0) = Longest(i, i2, j, j2)
  <2>1. i2 - 0 = i2 /\ j2 - 0 = j2
    OBVIOUS
  <2> QED
    BY <2>1
<1> HIDE DEF L
<1>4. S = {}
  <2>1. SUFFICES ASSUME S # {} PROVE FALSE
    OBVIOUS
  <2>2. PICK n \in S : \A m \in S : n <= m
    <3>1. S \in SUBSET Nat
      OBVIOUS
    <3> HIDE DEF S
    <3> QED
      BY <2>1, <3>1, LeastElement
  <2>3. n # 0
    BY <1>1, <2>2
  <2>4. n - 1 \in 0..(q - 1) /\ n - 1 \in 0..q /\ n - 1 \notin S /\ (n - 1) + 1 = n
    BY <2>2, <2>3
  <2>5. L(0) <= L(n - 1) + (n - 1)
    BY <2>4
  <2>6. L(n - 1) <= L(n) + 1
    BY <1>2, <2>4
  <2>7. n \in 0..q /\ L(0) \in Nat /\ L(n) \in Nat /\ L(n - 1) \in Nat
    BY <1>1, <2>2, <2>4
  <2> QED
    BY <2>2, <2>5, <2>6, <2>7
<1>5. L(0) <= L(q) + q
  BY <1>4
<1> QED
  BY <1>3, <1>5 DEF L

(* The lines kept so far and the most that the regions can add reach the   *)
(* longest common subsequence of the whole.                                *)
Full == Slice("diff", 0, Len(a), 0, Len(b))
Kept(es) == Cardinality({k \in 1..Len(es) : es[k].op = "equal"})
Worth(g) == IF g.task = "keep" THEN Width(g)
            ELSE IF g.task = "lcs" THEN Longest(g.a1, g.a2, g.b1, g.b2) ELSE 0
Nth(rs, k) == IF k <= Len(rs) THEN Worth(rs[k]) ELSE 0
Worths(rs) == Nth(rs, 1) + Nth(rs, 2) + Nth(rs, 3)
Few(rs) == Len(rs) <= 3 /\ \A k \in 1..Len(rs) : rs[k].task \in {"keep", "lcs", "replace"}
Reachable(es, rs) == Longest(0, Len(a), 0, Len(b)) <= Kept(es) + Worths(rs)

MinInv == FitsTable => \/ todo = <<Full>> /\ edits = <<>>
                       \/ Few(todo) /\ Reachable(edits, todo)

LEMMA KeptConcat ==
  ASSUME NEW es \in Seq(Edit), NEW ts \in Seq(Edit), NEW op, AllAre(ts, op)
  PROVE  /\ Kept(es) \in Nat /\ Kept(es \o ts) \in Nat
         /\ op = "equal" => Kept(es \o ts) = Kept(es) + Len(ts)
         /\ op # "equal" => Kept(es \o ts) = Kept(es)
<1> DEFINE c == es \o ts
           K == {k \in 1..Len(es) : es[k].op = "equal"}
           I == (Len(es) + 1)..Len(c)
<1>1. /\ Len(es) \in Nat /\ Len(ts) \in Nat
      /\ Len(c) = Len(es) + Len(ts) /\ c \in Seq(Edit)
      /\ \A k \in 1..Len(es) : c[k] = es[k]
      /\ \A k \in 1..Len(ts) : c[Len(es) + k] = ts[k]
  BY Concatenated
<1> HIDE DEF c
<1>2. IsFiniteSet(K) /\ Cardinality(K) \in Nat
  <2>1. 1 \in Int /\ Len(es) \in Int
    BY <1>1
  <2>2. IsFiniteSet(1..Len(es)) /\ K \in SUBSET (1..Len(es))
    BY <2>1, FS_Interval
  <2> QED
    BY <2>2, FS_Subset, FS_CardinalityType
<1>3. IsFiniteSet(I) /\ Cardinality(I) = Len(ts)
  <2>1. Len(es) + 1 \in Int /\ Len(c) \in Int
    BY <1>1
  <2>2. IsFiniteSet(I) /\ Cardinality(I) = IF Len(es) + 1 > Len(c) THEN 0 ELSE Len(c) - (Len(es) + 1) + 1
    BY <2>1, FS_Interval
  <2> HIDE DEF I
  <2> QED
    BY <1>1, <2>2
<1>4. ASSUME NEW k \in I PROVE c[k].op = op
  <2>1. k - Len(es) \in 1..Len(ts) /\ k = Len(es) + (k - Len(es))
    BY <1>1
  <2>2. c[k] = ts[k - Len(es)]
    BY <1>1, <2>1
  <2> QED
    BY <2>1, <2>2 DEF AllAre
<1>5. 1..Len(c) = (1..Len(es)) \cup I
  BY <1>1
<1>6. K \cap I = {}
  BY <1>1
<1>7. CASE op = "equal"
  <2>1. {k \in 1..Len(c) : c[k].op = "equal"} = K \cup I
    <3> HIDE DEF I
    <3> QED
      BY <1>1, <1>4, <1>5, <1>7
  <2> HIDE DEF K, I
  <2>2. Cardinality(K \cup I) = Cardinality(K) + Cardinality(I) - Cardinality({})
    BY <1>2, <1>3, <1>6, FS_Union
  <2>3. Cardinality(K \cup I) = Cardinality(K) + Len(ts)
    BY <1>1, <1>2, <1>3, <2>2, FS_EmptySet
  <2>4. Kept(es) = Cardinality(K)
    BY DEF Kept, K
  <2>5. Kept(c) = Cardinality(K \cup I)
    BY <2>1 DEF Kept
  <2> QED
    BY <1>1, <1>2, <1>7, <2>3, <2>4, <2>5 DEF c
<1>8. CASE op # "equal"
  <2>1. {k \in 1..Len(c) : c[k].op = "equal"} = K
    <3> HIDE DEF I
    <3> QED
      BY <1>1, <1>4, <1>5, <1>8
  <2> QED
    BY <1>2, <1>8, <2>1 DEF Kept, c
<1> QED
  BY <1>7, <1>8

LEMMA WorthIsNat ==
  ASSUME NEW g \in Sound
  PROVE  Worth(g) \in Nat
<1>1. g.a1 \in Nat /\ g.a2 \in Nat /\ g.b1 \in Nat /\ g.b2 \in Nat /\ g.a1 <= g.a2
  BY DEF Sound, Region
<1>2. Longest(g.a1, g.a2, g.b1, g.b2) \in Nat
  BY <1>1, LongestIsNat
<1>3. Width(g) \in Nat
  BY <1>1 DEF Width
<1> QED
  BY <1>2, <1>3 DEF Worth

LEMMA NthIsNat ==
  ASSUME NEW rs \in Seq(Sound), NEW k \in Nat \ {0}
  PROVE  Nth(rs, k) \in Nat
<1>1. CASE k <= Len(rs)
  <2>1. rs[k] \in Sound
    BY <1>1, LenProperties, ElementOfSeq
  <2> QED
    BY <1>1, <2>1, WorthIsNat DEF Nth
<1>2. CASE ~(k <= Len(rs))
  BY <1>2 DEF Nth
<1> QED
  BY <1>1, <1>2

(* The region on top and the others.                                       *)
Rest(rs, t) == Len(rs) = Len(t) + 1 /\ \A k \in 1..Len(t) : t[k] = rs[k + 1]

LEMMA WorthsApart ==
  ASSUME NEW rs \in Seq(Sound), NEW t \in Seq(Sound), Rest(rs, t), Len(rs) <= 3
  PROVE  /\ rs[1] \in Sound /\ Worths(rs) = Worth(rs[1]) + Worths(t)
         /\ Worth(rs[1]) \in Nat /\ Worths(t) \in Nat
<1>1. /\ Len(rs) = Len(t) + 1 /\ Len(t) \in Nat
      /\ \A k \in 1..Len(t) : t[k] = rs[k + 1]
  BY LenProperties DEF Rest
<1>2. rs[1] \in Sound
  <2>1. 1 \in 1..Len(rs)
    BY <1>1
  <2> QED
    BY <2>1, ElementOfSeq
<1>3. Nth(rs, 1) = Worth(rs[1])
  BY <1>1 DEF Nth
<1>4. Nth(rs, 2) = Nth(t, 1)
  <2>1. 1 <= Len(t) => t[1] = rs[2]
    BY <1>1
  <2> QED
    BY <1>1, <2>1 DEF Nth
<1>5. Nth(rs, 3) = Nth(t, 2)
  <2>1. 2 <= Len(t) => t[2] = rs[3]
    BY <1>1
  <2> QED
    BY <1>1, <2>1 DEF Nth
<1>6. Nth(t, 3) = 0
  BY <1>1 DEF Nth
<1>7. Worth(rs[1]) \in Nat /\ Nth(t, 1) \in Nat /\ Nth(t, 2) \in Nat
  BY <1>2, WorthIsNat, NthIsNat
<1> QED
  BY <1>2, <1>3, <1>4, <1>5, <1>6, <1>7 DEF Worths

LEMMA TopApart ==
  ASSUME NEW rs \in Seq(Sound), rs # <<>>, Few(rs)
  PROVE  /\ Head(rs) \in Sound /\ Tail(rs) \in Seq(Sound) /\ Len(Tail(rs)) <= 2 /\ Few(Tail(rs))
         /\ Worths(rs) = Worth(Head(rs)) + Worths(Tail(rs))
         /\ Worth(Head(rs)) \in Nat /\ Worths(Tail(rs)) \in Nat
<1>1. /\ Head(rs) \in Sound /\ Tail(rs) \in Seq(Sound) /\ Len(Tail(rs)) = Len(rs) - 1
      /\ Len(rs) \in Nat /\ \A k \in 1..Len(Tail(rs)) : Tail(rs)[k] = rs[k + 1]
      /\ Head(rs) = rs[1]
  BY HeadTailProperties, LenProperties
<1>2. Rest(rs, Tail(rs)) /\ Len(rs) <= 3
  BY <1>1 DEF Rest, Few
<1>3. Len(Tail(rs)) <= 2
  BY <1>1, <1>2
<1>4. /\ Worths(rs) = Worth(rs[1]) + Worths(Tail(rs))
      /\ Worth(rs[1]) \in Nat /\ Worths(Tail(rs)) \in Nat
  BY <1>1, <1>2, WorthsApart
<1>5. Few(Tail(rs))
  <2>1. ASSUME NEW k \in 1..Len(Tail(rs)) PROVE Tail(rs)[k].task \in {"keep", "lcs", "replace"}
    <3>1. k + 1 \in 1..Len(rs) /\ Tail(rs)[k] = rs[k + 1]
      BY <1>1
    <3> QED
      BY <3>1 DEF Few
  <2> QED
    BY <1>3, <2>1, <1>1 DEF Few
<1> QED
  BY <1>1, <1>3, <1>4, <1>5

LEMMA PushApart ==
  ASSUME NEW g \in Sound, NEW t \in Seq(Sound), Len(t) <= 2, Few(t), g.task \in {"keep", "lcs", "replace"}
  PROVE  /\ <<g>> \o t \in Seq(Sound) /\ Few(<<g>> \o t)
         /\ Worths(<<g>> \o t) = Worth(g) + Worths(t)
         /\ Worth(g) \in Nat /\ Worths(t) \in Nat
<1> DEFINE h == <<g>> \o t
<1>1. <<g>> \in Seq(Sound) /\ Len(<<g>>) = 1 /\ <<g>>[1] = g
  BY SingleRegion
<1>2. /\ h \in Seq(Sound) /\ Len(h) = 1 + Len(t) /\ h[1] = g /\ Len(t) \in Nat
      /\ \A k \in 1..Len(t) : h[1 + k] = t[k]
  BY <1>1, Concatenated
<1> HIDE DEF h
<1>3. Rest(h, t) /\ Len(h) <= 3
  BY <1>2 DEF Rest
<1>4. /\ Worths(h) = Worth(h[1]) + Worths(t) /\ Worth(h[1]) \in Nat /\ Worths(t) \in Nat
  BY <1>2, <1>3, WorthsApart
<1>5. Few(h)
  <2>1. ASSUME NEW k \in 1..Len(h) PROVE h[k].task \in {"keep", "lcs", "replace"}
    <3>1. CASE k = 1
      BY <1>2, <3>1
    <3>2. CASE k # 1
      <4>1. k - 1 \in 1..Len(t) /\ h[k] = t[k - 1]
        BY <1>2, <1>3, <3>2 DEF Rest
      <4> QED
        BY <4>1 DEF Few
    <3> QED
      BY <3>1, <3>2
  <2> QED
    BY <1>3, <2>1 DEF Few
<1> QED
  BY <1>2, <1>4, <1>5 DEF h

(* A common prefix, a middle and a common suffix.                          *)
LEMMA WorthAround ==
  ASSUME NEW r \in Seq(Sound), NEW s \in Seq(Sound), NEW g \in Sound, Len(r) <= 1, Len(s) <= 1,
         g.task = "lcs",
         \A k \in 1..Len(r) : r[k].task = "keep", \A k \in 1..Len(s) : s[k].task = "keep"
  PROVE  /\ Few((r \o <<g>>) \o s)
         /\ Worths((r \o <<g>>) \o s) = Nth(r, 1) + Worth(g) + Nth(s, 1)
<1> DEFINE h == r \o <<g>>
           c == h \o s
<1>1. <<g>> \in Seq(Sound) /\ Len(<<g>>) = 1 /\ <<g>>[1] = g
  BY SingleRegion
<1>2. /\ h \in Seq(Sound) /\ Len(h) = Len(r) + 1 /\ Len(r) \in Nat
      /\ \A k \in 1..Len(r) : h[k] = r[k]
      /\ h[Len(r) + 1] = g
  BY <1>1, Concatenated
<1> HIDE DEF h
<1>3. /\ c \in Seq(Sound) /\ Len(c) = Len(h) + Len(s) /\ Len(s) \in Nat
      /\ \A k \in 1..Len(h) : c[k] = h[k]
      /\ \A k \in 1..Len(s) : c[Len(h) + k] = s[k]
  BY <1>2, Concatenated
<1> HIDE DEF c
<1>4. Nth(r, 1) \in Nat /\ Nth(s, 1) \in Nat /\ Worth(g) \in Nat
  BY WorthIsNat, NthIsNat
<1>5. CASE Len(r) = 0
  <2>1. Len(c) = 1 + Len(s) /\ c[1] = g /\ (Len(s) = 1 => c[2] = s[1])
    BY <1>2, <1>3, <1>5
  <2>2. Nth(r, 1) = 0 /\ Nth(c, 1) = Worth(g) /\ Nth(c, 2) = Nth(s, 1) /\ Nth(c, 3) = 0
    BY <1>3, <1>5, <2>1 DEF Nth
  <2>3. Few(c)
    BY <1>3, <2>1 DEF Few
  <2> QED
    BY <1>4, <2>2, <2>3 DEF Worths, c, h
<1>6. CASE Len(r) = 1
  <2>1. Len(c) = 2 + Len(s) /\ c[1] = r[1] /\ c[2] = g /\ (Len(s) = 1 => c[3] = s[1])
    BY <1>2, <1>3, <1>6
  <2>2. Nth(c, 1) = Nth(r, 1) /\ Nth(c, 2) = Worth(g) /\ Nth(c, 3) = Nth(s, 1)
    BY <1>3, <1>6, <2>1 DEF Nth
  <2>3. Few(c)
    BY <1>3, <1>6, <2>1 DEF Few
  <2> QED
    BY <1>4, <2>2, <2>3 DEF Worths, c, h
<1> QED
  BY <1>2, <1>5, <1>6

(* Unchanged input leaves what is reached and what fits unchanged.         *)
LEMMA LongestStable ==
  ASSUME UNCHANGED input, NEW i, NEW i2, NEW j, NEW j2
  PROVE  Longest(i, i2, j, j2)' = Longest(i, i2, j, j2)
<1>1. Matchings(i, i2, j, j2)' = Matchings(i, i2, j, j2)
  BY DEF Matchings, Cells, Ordered, At, input
<1> QED
  BY <1>1 DEF Longest

LEMMA FitsStable ==
  ASSUME UNCHANGED input
  PROVE  FitsTable' <=> FitsTable
<1> DEFINE g == Slice("diff", 0, Len(a), 0, Len(b))
           p == Prefix(g)
           q == Suffix(g, p)
<1>1. g' = g
  BY DEF input
<1>2. p' = p
  BY <1>1 DEF Prefix, At, input, Width, Height
<1> HIDE DEF g, p
<1>3. q' = q
  BY <1>1, <1>2 DEF Suffix, At, input, Width, Height
<1> HIDE DEF q
<1> QED
  BY <1>1, <1>2, <1>3 DEF FitsTable, input, g, p, q

LEMMA ReachableStable ==
  ASSUME UNCHANGED input, NEW rs, todo' = rs, NEW es, edits' = es
  PROVE  Reachable(edits, todo)' <=> Reachable(es, rs)
<1>1. \A g : Worth(g)' = Worth(g)
  <2>1. ASSUME NEW g PROVE Worth(g)' = Worth(g)
    <3>1. Longest(g.a1, g.a2, g.b1, g.b2)' = Longest(g.a1, g.a2, g.b1, g.b2)
      BY LongestStable
    <3> QED
      BY <3>1 DEF Worth, Width
  <2> QED
    BY <2>1
<1>2. Longest(0, Len(a), 0, Len(b))' = Longest(0, Len(a), 0, Len(b))
  <2> DEFINE n == Len(a)
             m == Len(b)
  <2>1. n' = n /\ m' = m
    BY DEF input
  <2> HIDE DEF n, m
  <2> QED
    BY <2>1, LongestStable DEF Longest, Matchings, Cells, Ordered, At, input
<1> QED
  BY <1>1, <1>2 DEF Reachable, Kept, Worths, Nth

LEMMA MinStep ==
  ASSUME UNCHANGED input, NEW rs, todo' = rs, NEW es, edits' = es, FitsTable => Few(rs) /\ Reachable(es, rs)
  PROVE  MinInv'
<1>1. Reachable(edits, todo)' <=> Reachable(es, rs)
  BY ReachableStable
<1>2. FitsTable' <=> FitsTable
  BY FitsStable
<1>3. Few(todo)' <=> Few(rs)
  BY DEF Few
<1> QED
  BY <1>1, <1>2, <1>3 DEF MinInv

(* Whatever a step other than Trim starts from, the first region is not    *)
(* the whole, and its worth and that of the others are what is to come.    *)
LEMMA MinTop ==
  ASSUME IInv, MinInv, FitsTable, todo # <<>>, Top.task # "diff"
  PROVE  /\ Top \in Sound /\ Top.task \in {"keep", "lcs", "replace"}
         /\ Tail(todo) \in Seq(Sound) /\ Len(Tail(todo)) <= 2 /\ Few(Tail(todo))
         /\ Longest(0, Len(a), 0, Len(b)) <= Kept(edits) + (Worth(Top) + Worths(Tail(todo)))
         /\ Worth(Top) \in Nat /\ Worths(Tail(todo)) \in Nat /\ Kept(edits) \in Nat
         /\ Longest(0, Len(a), 0, Len(b)) \in Nat
<1>1. todo \in Seq(Sound) /\ edits \in Seq(Edit) /\ a \in Seq(Text) /\ b \in Seq(Text)
  BY DEF IInv, Typed
<1>2. Few(todo) /\ Reachable(edits, todo)
  <2>1. ASSUME todo = <<Full>> PROVE Top.task = "diff"
    <3>1. Full.task = "diff"
      BY DEF Full, Slice
    <3> HIDE DEF Full
    <3> QED
      BY <2>1, <3>1 DEF Top
  <2> QED
    BY <2>1 DEF MinInv
<1>3. /\ Top \in Sound /\ Tail(todo) \in Seq(Sound) /\ Len(Tail(todo)) <= 2 /\ Few(Tail(todo))
      /\ Worths(todo) = Worth(Top) + Worths(Tail(todo))
      /\ Worth(Top) \in Nat /\ Worths(Tail(todo)) \in Nat
  BY <1>1, <1>2, TopApart DEF Top
<1>4. Top.task \in {"keep", "lcs", "replace"}
  <2>1. Len(todo) \in Nat /\ Len(todo) # 0 /\ Top = todo[1]
    BY <1>1, EmptyLen DEF Top
  <2>2. 1 \in 1..Len(todo)
    BY <2>1
  <2> QED
    BY <1>2, <2>1, <2>2 DEF Few
<1>5. Kept(edits) \in Nat
  <2>1. <<>> \in Seq(Edit) /\ AllAre(<<>>, "equal")
    BY EmptySeq DEF AllAre
  <2> QED
    BY <1>1, <2>1, KeptConcat
<1>6. Longest(0, Len(a), 0, Len(b)) \in Nat
  <2>1. Len(a) \in Nat /\ Len(b) \in Nat /\ 0 \in Nat
    BY <1>1, LenProperties
  <2> QED
    BY <2>1, LongestIsNat
<1> QED
  BY <1>2, <1>3, <1>4, <1>5, <1>6 DEF Reachable

LEMMA MinKeep ==
  ASSUME IInv, MinInv, Keep
  PROVE  MinInv'
<1> DEFINE ts == Edits("equal", a, Top.a1, Top.a2)
           t == Tail(todo)
<1>1. todo # <<>> /\ Top.task = "keep" /\ edits' = edits \o ts /\ todo' = <<>> \o t /\ UNCHANGED input
  BY DEF Keep, Pending, Push
<1>2. /\ Top \in Sound /\ Top.a1 \in Nat /\ Top.a2 \in Nat /\ Top.a1 <= Top.a2 /\ Top.a2 <= Len(a)
      /\ a \in Seq(Text) /\ edits \in Seq(Edit)
  BY <1>1, TopFacts
<1>3. ts \in Seq(Edit) /\ Len(ts) = Width(Top) /\ AllAre(ts, "equal")
  <2>1. "equal" \in Op
    BY DEF Op
  <2>2. Shows(ts, "equal", a, Top.a1, Top.a2)
    BY <1>2, <2>1, EditsBlock
  <2> QED
    BY <2>2 DEF Shows, AllAre, Width
<1> HIDE DEF ts, t
<1>4. ASSUME FitsTable PROVE Few(t) /\ Reachable(edits \o ts, t)
  <2>1. /\ Few(t) /\ Longest(0, Len(a), 0, Len(b)) <= Kept(edits) + (Worth(Top) + Worths(t))
        /\ Worth(Top) \in Nat /\ Worths(t) \in Nat /\ Kept(edits) \in Nat
        /\ Longest(0, Len(a), 0, Len(b)) \in Nat
    BY <1>1, <1>4, MinTop DEF t
  <2>2. Worth(Top) = Width(Top)
    BY <1>1 DEF Worth
  <2>3. Kept(edits \o ts) = Kept(edits) + Len(ts)
    BY <1>2, <1>3, KeptConcat
  <2> QED
    BY <1>3, <2>1, <2>2, <2>3 DEF Reachable
<1>5. todo' = t
  <2>1. t \in Seq(Sound)
    BY <1>1, HeadTailProperties DEF IInv, Typed, t
  <2> QED
    BY <1>1, <2>1, ConcatEmptySeq
<1> QED
  BY <1>1, <1>4, <1>5, MinStep

LEMMA MinReplace ==
  ASSUME IInv, MinInv, Replace
  PROVE  MinInv'
<1> DEFINE ds == Edits("delete", a, Top.a1, Top.a2)
           is == Edits("insert", b, Top.b1, Top.b2)
           t == Tail(todo)
<1>1. /\ todo # <<>> /\ Top.task = "replace" /\ edits' = (edits \o ds) \o is /\ todo' = <<>> \o t
      /\ UNCHANGED input
  BY DEF Replace, Pending, Push
<1>2. /\ Top.a1 \in Nat /\ Top.a2 \in Nat /\ Top.b1 \in Nat /\ Top.b2 \in Nat
      /\ Top.a1 <= Top.a2 /\ Top.a2 <= Len(a) /\ Top.b1 <= Top.b2 /\ Top.b2 <= Len(b)
      /\ a \in Seq(Text) /\ b \in Seq(Text) /\ edits \in Seq(Edit)
  BY <1>1, TopFacts
<1>3. ds \in Seq(Edit) /\ AllAre(ds, "delete")
  <2>1. "delete" \in Op
    BY DEF Op
  <2>2. Shows(ds, "delete", a, Top.a1, Top.a2)
    BY <1>2, <2>1, EditsBlock
  <2> QED
    BY <2>2 DEF Shows, AllAre
<1>4. is \in Seq(Edit) /\ AllAre(is, "insert")
  <2>1. "insert" \in Op
    BY DEF Op
  <2>2. Shows(is, "insert", b, Top.b1, Top.b2)
    BY <1>2, <2>1, EditsBlock
  <2> QED
    BY <2>2 DEF Shows, AllAre
<1> HIDE DEF ds, is, t
<1>5. Kept((edits \o ds) \o is) = Kept(edits)
  <2> DEFINE c == edits \o ds
  <2>1. Kept(c) = Kept(edits) /\ c \in Seq(Edit)
    BY <1>2, <1>3, KeptConcat, Concatenated
  <2> HIDE DEF c
  <2>2. Kept(c \o is) = Kept(c)
    BY <1>4, <2>1, KeptConcat
  <2> QED
    BY <2>1, <2>2 DEF c
<1>6. ASSUME FitsTable PROVE Few(t) /\ Reachable((edits \o ds) \o is, t)
  <2>1. /\ Few(t) /\ Longest(0, Len(a), 0, Len(b)) <= Kept(edits) + (Worth(Top) + Worths(t))
        /\ Worths(t) \in Nat
    BY <1>1, <1>6, MinTop DEF t
  <2>2. Worth(Top) = 0
    BY <1>1 DEF Worth
  <2> QED
    BY <1>5, <2>1, <2>2 DEF Reachable
<1>7. todo' = t
  <2>1. t \in Seq(Sound)
    BY <1>1, HeadTailProperties DEF IInv, Typed, t
  <2> QED
    BY <1>1, <2>1, ConcatEmptySeq
<1> QED
  BY <1>1, <1>6, <1>7, MinStep

(* A step that replaces the region on top, and keeps k lines.              *)
LEMMA MinShrink ==
  ASSUME IInv, MinInv, todo # <<>>, Top.task # "diff", UNCHANGED input,
         NEW g \in Sound, Push(<<g>>), g.task \in {"keep", "lcs", "replace"},
         NEW k \in Nat, edits' \in Seq(Edit), Kept(edits') = Kept(edits) + k,
         Worth(Top) <= Worth(g) + k
  PROVE  MinInv'
<1> DEFINE t == Tail(todo)
<1>1. todo' = <<g>> \o t
  BY DEF Push
<1>2. ASSUME FitsTable PROVE Few(<<g>> \o t) /\ Reachable(edits', <<g>> \o t)
  <2>1. /\ t \in Seq(Sound) /\ Len(t) <= 2 /\ Few(t)
        /\ Longest(0, Len(a), 0, Len(b)) <= Kept(edits) + (Worth(Top) + Worths(t))
        /\ Worth(Top) \in Nat /\ Worths(t) \in Nat /\ Kept(edits) \in Nat
        /\ Longest(0, Len(a), 0, Len(b)) \in Nat
    BY <1>2, MinTop
  <2> HIDE DEF t
  <2>2. Few(<<g>> \o t) /\ Worths(<<g>> \o t) = Worth(g) + Worths(t) /\ Worth(g) \in Nat
    BY <2>1, PushApart
  <2> QED
    BY <2>1, <2>2 DEF Reachable
<1> HIDE DEF t
<1> QED
  BY <1>1, <1>2, MinStep

LEMMA MinFlush ==
  ASSUME IInv, MinInv, Flush
  PROVE  MinInv'
<1> DEFINE g == [Top EXCEPT !.task = "replace"]
<1>1. /\ todo # <<>> /\ Top.task = "lcs" /\ Push(<<g>>) /\ (Width(Top) = 0 \/ Height(Top) = 0)
      /\ UNCHANGED input /\ edits' = edits
  BY DEF Flush, Pending
<1>2. /\ Top \in Sound /\ Top.a1 \in Nat /\ Top.a2 \in Nat /\ Top.b1 \in Nat /\ Top.b2 \in Nat
      /\ edits \in Seq(Edit)
  BY <1>1, TopFacts
<1>3. g \in Sound /\ g.task = "replace"
  BY <1>2 DEF Sound, Region, Task
<1> HIDE DEF g
<1>4. Worth(Top) = 0 /\ Worth(g) = 0
  <2>1. Top.a1 >= Top.a2 \/ Top.b1 >= Top.b2
    BY <1>1, <1>2 DEF Width, Height
  <2>2. Longest(Top.a1, Top.a2, Top.b1, Top.b2) = 0
    BY <1>2, <2>1, LongestEmpty
  <2> QED
    BY <1>1, <1>3, <2>2 DEF Worth
<1>5. Kept(edits) \in Nat
  <2>1. <<>> \in Seq(Edit) /\ AllAre(<<>>, "equal")
    BY EmptySeq DEF AllAre
  <2> QED
    BY <1>2, <2>1, KeptConcat
<1>6. /\ 0 \in Nat /\ Kept(edits') = Kept(edits) + 0 /\ edits' \in Seq(Edit)
      /\ Worth(Top) <= Worth(g) + 0 /\ Top.task # "diff" /\ g.task \in {"keep", "lcs", "replace"}
  BY <1>1, <1>2, <1>3, <1>4, <1>5
<1> QED
  BY <1>1, <1>3, <1>6, MinShrink

LEMMA KeptAppend ==
  ASSUME IInv, NEW op \in Op, NEW text \in Text, Emit(op, text)
  PROVE  /\ edits' \in Seq(Edit) /\ Kept(edits) \in Nat
         /\ op = "equal" => Kept(edits') = Kept(edits) + 1
         /\ op # "equal" => Kept(edits') = Kept(edits) + 0
<1> DEFINE e == [op |-> op, text |-> text]
<1>1. edits \in Seq(Edit) /\ e \in Edit /\ e.op = op /\ edits' = Append(edits, e)
  BY DEF IInv, Typed, Edit, Emit
<1> HIDE DEF e
<1>2. <<e>> \in Seq(Edit) /\ Len(<<e>>) = 1 /\ <<e>>[1] = e
  BY <1>1
<1>3. edits' = edits \o <<e>> /\ edits' \in Seq(Edit)
  BY <1>1, <1>2, AppendIsConcat, Concatenated
<1>4. AllAre(<<e>>, op)
  BY <1>1, <1>2 DEF AllAre
<1>5. /\ Kept(edits) \in Nat
      /\ op = "equal" => Kept(edits \o <<e>>) = Kept(edits) + Len(<<e>>)
      /\ op # "equal" => Kept(edits \o <<e>>) = Kept(edits)
  BY <1>1, <1>2, <1>4, KeptConcat
<1> QED
  BY <1>2, <1>3, <1>5

(* What a step of the walk leaves to be reached.                           *)
LEMMA WalkWorth ==
  ASSUME NEW g, g.a1 \in Nat, g.a2 \in Nat, g.b1 \in Nat, g.b2 \in Nat, g.a1 < g.a2, g.b1 < g.b2
  PROVE  /\ At(a, g.a1) = At(b, g.b1) =>
              Longest(g.a1, g.a2, g.b1, g.b2) <= Longest(g.a1 + 1, g.a2, g.b1 + 1, g.b2) + 1
         /\ At(a, g.a1) # At(b, g.b1) /\ DeletesNext(g) =>
              Longest(g.a1, g.a2, g.b1, g.b2) <= Longest(g.a1 + 1, g.a2, g.b1, g.b2) + 0
         /\ At(a, g.a1) # At(b, g.b1) /\ ~DeletesNext(g) =>
              Longest(g.a1, g.a2, g.b1, g.b2) <= Longest(g.a1, g.a2, g.b1 + 1, g.b2) + 0
<1> DEFINE i  == g.a1
           i1 == g.a1 + 1
           i2 == g.a2
           j  == g.b1
           j1 == g.b1 + 1
           j2 == g.b2
<1>1. /\ i \in Nat /\ i1 \in Nat /\ i2 \in Nat /\ j \in Nat /\ j1 \in Nat /\ j2 \in Nat
      /\ i <= i2 /\ j <= j2 /\ i # i2 /\ j # j2
      /\ i \in g.a1..g.a2 /\ i1 \in g.a1..g.a2 /\ j \in g.b1..g.b2 /\ j1 \in g.b1..g.b2
  OBVIOUS
<1>2. DeletesNext(g) <=> Longest(i1, i2, j, j2) >= Longest(i, i2, j1, j2)
  <2>1. Table(g)[<<i1, j>>] = Longest(i1, i2, j, j2) /\ Table(g)[<<i, j1>>] = Longest(i, i2, j1, j2)
    BY <1>1, TableIsLongest
  <2> QED
    BY <2>1 DEF DeletesNext
<1>3. /\ At(a, i) = At(b, j) => Longest(i, i2, j, j2) = Longest(i1, i2, j1, j2) + 1
      /\ At(a, i) # At(b, j) => Longest(i, i2, j, j2) = Maximum(Longest(i1, i2, j, j2), Longest(i, i2, j1, j2))
  <2>1. StepFacts(i, i2, j, j2)
    BY <1>1, LongestStep
  <2> QED
    BY <1>1, <2>1 DEF StepFacts
<1>4. /\ Longest(i, i2, j, j2) \in Nat /\ Longest(i1, i2, j, j2) \in Nat
      /\ Longest(i, i2, j1, j2) \in Nat /\ Longest(i1, i2, j1, j2) \in Nat
  <2> HIDE DEF i, i1, i2, j, j1, j2
  <2> QED
    BY <1>1, LongestIsNat
<1>5. At(a, i) = At(b, j) => Longest(i, i2, j, j2) <= Longest(i1, i2, j1, j2) + 1
  <2> HIDE DEF i, i1, i2, j, j1, j2
  <2> QED
    BY <1>3, <1>4
<1>6. /\ At(a, i) # At(b, j) /\ DeletesNext(g) => Longest(i, i2, j, j2) <= Longest(i1, i2, j, j2) + 0
      /\ At(a, i) # At(b, j) /\ ~DeletesNext(g) => Longest(i, i2, j, j2) <= Longest(i, i2, j1, j2) + 0
  <2> HIDE DEF i, i1, i2, j, j1, j2
  <2> QED
    BY <1>2, <1>3, <1>4 DEF Maximum
<1> QED
  BY <1>5, <1>6

LEMMA MinWalk ==
  ASSUME IInv, MinInv, Walk
  PROVE  MinInv'
<1>1. /\ todo # <<>> /\ Top.task = "lcs" /\ Width(Top) > 0 /\ Height(Top) > 0
      /\ UNCHANGED input /\ Top.task # "diff"
  BY DEF Walk, Pending, IInv
<1>2. /\ Top \in Sound /\ Top.a1 \in Nat /\ Top.a2 \in Nat /\ Top.b1 \in Nat /\ Top.b2 \in Nat
      /\ Top.a2 <= Len(a) /\ Top.b2 <= Len(b) /\ Len(a) \in Nat /\ Len(b) \in Nat
      /\ a \in Seq(Text) /\ b \in Seq(Text)
  BY <1>1, TopFacts
<1>3. Top.a1 < Top.a2 /\ Top.b1 < Top.b2
  BY <1>1, <1>2 DEF Width, Height
<1>4. At(a, Top.a1) \in Text /\ At(b, Top.b1) \in Text
  <2>1. Top.a1 + 1 \in 1..Len(a) /\ Top.b1 + 1 \in 1..Len(b)
    BY <1>2, <1>3
  <2> QED
    BY <1>2, <2>1, ElementOfSeq DEF At
<1>5. /\ Top = [task |-> "lcs", a1 |-> Top.a1, a2 |-> Top.a2, b1 |-> Top.b1, b2 |-> Top.b2]
      /\ Worth(Top) = Longest(Top.a1, Top.a2, Top.b1, Top.b2)
  BY <1>1, <1>2 DEF Sound, Region, Worth
<1> DEFINE G(x, y) == [task |-> "lcs", a1 |-> x, a2 |-> Top.a2, b1 |-> y, b2 |-> Top.b2]
<1>6. ASSUME NEW x \in {Top.a1, Top.a1 + 1}, NEW y \in {Top.b1, Top.b1 + 1}
      PROVE  /\ G(x, y) \in Sound /\ G(x, y).task \in {"keep", "lcs", "replace"}
             /\ Worth(G(x, y)) = Longest(x, Top.a2, y, Top.b2)
  <2>1. G(x, y) \in Region
    BY <1>2 DEF Region, Task
  <2>2. x <= Top.a2 /\ y <= Top.b2
    BY <1>2, <1>3
  <2>3. G(x, y) \in Sound
    BY <1>2, <2>1, <2>2 DEF Sound
  <2> QED
    BY <2>3 DEF Worth
<1>7. CASE /\ At(a, Top.a1) = At(b, Top.b1) /\ Emit("equal", At(a, Top.a1))
           /\ Push(<<Slice("lcs", Top.a1 + 1, Top.a2, Top.b1 + 1, Top.b2)>>)
  <2> DEFINE g == G(Top.a1 + 1, Top.b1 + 1)
  <2>1. Slice("lcs", Top.a1 + 1, Top.a2, Top.b1 + 1, Top.b2) = g
    BY DEF Slice
  <2>2. g \in Sound /\ g.task \in {"keep", "lcs", "replace"} /\ Push(<<g>>) /\ Worth(Top) <= Worth(g) + 1
    BY <1>2, <1>3, <1>5, <1>6, <1>7, <2>1, WalkWorth
  <2> HIDE DEF g
  <2>3. edits' \in Seq(Edit) /\ Kept(edits') = Kept(edits) + 1 /\ 1 \in Nat
    BY <1>4, <1>7, KeptAppend DEF Op
  <2> QED
    BY <1>1, <2>2, <2>3, MinShrink
<1>8. CASE /\ At(a, Top.a1) # At(b, Top.b1) /\ DeletesNext(Top)
           /\ Emit("delete", At(a, Top.a1)) /\ Push(<<[Top EXCEPT !.a1 = @ + 1]>>)
  <2> DEFINE g == G(Top.a1 + 1, Top.b1)
  <2>1. [Top EXCEPT !.a1 = @ + 1] = g
    BY <1>5
  <2>2. g \in Sound /\ g.task \in {"keep", "lcs", "replace"} /\ Push(<<g>>) /\ Worth(Top) <= Worth(g) + 0
    BY <1>2, <1>3, <1>5, <1>6, <1>8, <2>1, WalkWorth
  <2> HIDE DEF g
  <2>3. edits' \in Seq(Edit) /\ Kept(edits') = Kept(edits) + 0 /\ 0 \in Nat
    BY <1>4, <1>8, KeptAppend DEF Op
  <2> QED
    BY <1>1, <2>2, <2>3, MinShrink
<1>9. CASE /\ At(a, Top.a1) # At(b, Top.b1) /\ ~DeletesNext(Top)
           /\ Emit("insert", At(b, Top.b1)) /\ Push(<<[Top EXCEPT !.b1 = @ + 1]>>)
  <2> DEFINE g == G(Top.a1, Top.b1 + 1)
  <2>1. [Top EXCEPT !.b1 = @ + 1] = g
    BY <1>5
  <2>2. g \in Sound /\ g.task \in {"keep", "lcs", "replace"} /\ Push(<<g>>) /\ Worth(Top) <= Worth(g) + 0
    BY <1>2, <1>3, <1>5, <1>6, <1>9, <2>1, WalkWorth
  <2> HIDE DEF g
  <2>3. edits' \in Seq(Edit) /\ Kept(edits') = Kept(edits) + 0 /\ 0 \in Nat
    BY <1>4, <1>9, KeptAppend DEF Op
  <2> QED
    BY <1>1, <2>2, <2>3, MinShrink
<1> QED
  BY <1>7, <1>8, <1>9 DEF Walk

LEMMA CopiedWorth ==
  ASSUME NEW a1 \in Nat, NEW a2 \in Nat, NEW b1, NEW b2
  PROVE  Nth(Copied(a1, a2, b1, b2), 1) = a2 - a1
<1> DEFINE g == Slice("keep", a1, a2, b1, b2)
<1>1. CASE a1 = a2
  <2>1. Copied(a1, a2, b1, b2) = <<>> /\ Len(<<>>) = 0
    BY <1>1 DEF Copied
  <2> QED
    BY <1>1, <2>1 DEF Nth
<1>2. CASE a1 # a2
  <2>1. Copied(a1, a2, b1, b2) = <<g>> /\ Len(<<g>>) = 1 /\ <<g>>[1] = g
    BY <1>2 DEF Copied
  <2>2. Worth(g) = a2 - a1
    BY DEF Worth, Slice, Width
  <2> HIDE DEF g
  <2> QED
    BY <2>1, <2>2 DEF Nth
<1> QED
  BY <1>1, <1>2

(* Nothing is lost when common lines are trimmed.                          *)
LEMMA TrimmedWorth ==
  ASSUME NEW n \in Nat, NEW m \in Nat, NEW p \in Nat, NEW q \in Nat, p <= n, p <= m,
         q <= n - p, q <= m - p
  PROVE  Longest(0, n, 0, m) <= p + Longest(p, n - q, p, m - q) + (n - (n - q))
<1>1. 0 \in Nat /\ 0 + p = p /\ n - q \in Nat /\ m - q \in Nat /\ q <= n /\ q <= m
  OBVIOUS
<1>2. Longest(0, n, 0, m) <= Longest(0 + p, n, 0 + p, m) + p
  BY <1>1, LongestDropPrefix
<1>3. Longest(p, n, p, m) <= Longest(p, n - q, p, m - q) + q
  BY <1>1, LongestDropSuffix
<1>4. /\ Longest(0, n, 0, m) \in Nat /\ Longest(p, n, p, m) \in Nat
      /\ Longest(p, n - q, p, m - q) \in Nat
  BY <1>1, LongestIsNat
<1> QED
  BY <1>1, <1>2, <1>3, <1>4

LEMMA MinTrim ==
  ASSUME IInv, MinInv, Trim
  PROVE  MinInv'
<1> DEFINE g == Full
           p == Prefix(g)
           q == Suffix(g, p)
           n == Len(a)
           m == Len(b)
           mid == Slice("lcs", p, n - q, p, m - q)
           r == Copied(0, p, 0, p)
           s == Copied(n - q, n, m - q, m)
           rs == (r \o <<mid>>) \o s
<1>1. todo # <<>> /\ Top.task = "diff" /\ edits' = edits /\ UNCHANGED input
  BY DEF Trim, Pending
<1>2. /\ n \in Nat /\ m \in Nat /\ 0 \in Nat /\ edits \in Seq(Edit) /\ todo \in Seq(Sound)
  BY <1>1, TopFacts DEF IInv, Typed
<1>3. ASSUME FitsTable PROVE todo = <<Full>> /\ edits = <<>>
  <2>1. ASSUME Few(todo) PROVE Top.task \in {"keep", "lcs", "replace"}
    <3>1. Len(todo) \in Nat /\ Len(todo) # 0 /\ Top = todo[1]
      BY <1>1, <1>2, EmptyLen DEF Top
    <3>2. 1 \in 1..Len(todo)
      BY <3>1
    <3> QED
      BY <2>1, <3>1, <3>2 DEF Few
  <2> QED
    BY <1>1, <1>3, <2>1 DEF MinInv
<1>4. /\ g.a1 = 0 /\ g.a2 = n /\ g.b1 = 0 /\ g.b2 = m /\ Width(g) = n /\ Height(g) = m
  BY <1>2 DEF Full, Slice, Width, Height
<1> HIDE DEF g
<1>5. /\ p \in Nat /\ p <= n /\ p <= m
      /\ \A k \in 0..(p - 1) : At(a, 0 + k) = At(b, 0 + k)
  BY <1>2, <1>4, PrefixFacts
<1> HIDE DEF p
<1>6. /\ q \in Nat /\ q <= n - p /\ q <= m - p
      /\ \A k \in 0..(q - 1) : At(a, n - 1 - k) = At(b, m - 1 - k)
  <2> HIDE DEF n, m
  <2>1. /\ g.a1 \in Nat /\ g.a2 \in Nat /\ g.b1 \in Nat /\ g.b2 \in Nat
        /\ g.a1 <= g.a2 /\ g.b1 <= g.b2 /\ p \in Nat /\ p <= Width(g) /\ p <= Height(g)
    BY <1>2, <1>4, <1>5
  <2>2. /\ q \in Nat /\ q <= Width(g) - p /\ q <= Height(g) - p
        /\ \A k \in 0..(q - 1) : At(a, g.a2 - 1 - k) = At(b, g.b2 - 1 - k)
    BY <2>1, SuffixFacts
  <2> HIDE DEF q
  <2> QED
    BY <1>4, <2>2
<1> HIDE DEF q
<1>7. /\ CommonPart(0, 0 + p, 0, 0 + p)
      /\ CommonPart(n - q, n, m - q, m)
      /\ 0 + p <= n - q /\ 0 + p <= m - q
  <2>1. 0 <= n /\ n <= Len(a) /\ 0 <= m /\ m <= Len(b) /\ p <= n - 0 /\ p <= m - 0
        /\ q <= n - 0 - p /\ q <= m - 0 - p /\ Len(a) \in Nat /\ Len(b) \in Nat
    BY <1>2, <1>5, <1>6
  <2> HIDE DEF n, m
  <2> QED
    BY <1>2, <1>5, <1>6, <2>1, Trimmed
<1>8. 0 + p = p /\ n - q \in Nat /\ m - q \in Nat
  BY <1>2, <1>5, <1>6, <1>7
<1>9. mid = [task |-> "lcs", a1 |-> p, a2 |-> n - q, b1 |-> p, b2 |-> m - q]
  BY DEF Slice
<1> HIDE DEF mid
<1>10. mid \in Sound /\ mid.task = "lcs" /\ Worth(mid) = Longest(p, n - q, p, m - q)
  <2>1. mid \in Region
    BY <1>5, <1>8, <1>9 DEF Region, Task
  <2>2. p <= n - q /\ n - q <= n /\ p <= m - q /\ m - q <= m
    BY <1>2, <1>5, <1>6, <1>7
  <2>3. mid \in Sound
    BY <1>9, <2>1, <2>2 DEF Sound
  <2>4. Worth(mid) = Longest(p, n - q, p, m - q)
    BY <1>9 DEF Worth
  <2> QED
    BY <1>9, <2>3, <2>4
<1>11. /\ r \in Seq(Sound) /\ Len(r) <= 1 /\ \A k \in 1..Len(r) : r[k].task = "keep"
       /\ s \in Seq(Sound) /\ Len(s) <= 1 /\ \A k \in 1..Len(s) : s[k].task = "keep"
  <2> HIDE DEF n, m
  <2> QED
    BY <1>7, <1>8, CopiedFacts
<1>12. Nth(r, 1) = p /\ Nth(s, 1) = n - (n - q)
  <2>1. Nth(r, 1) = p - 0
    BY <1>2, <1>5, CopiedWorth
  <2>2. Nth(s, 1) = n - (n - q)
    BY <1>2, <1>8, CopiedWorth
  <2> QED
    BY <1>5, <2>1, <2>2
<1> HIDE DEF r, s
<1>13. Few(rs) /\ Worths(rs) = p + Worth(mid) + (n - (n - q)) /\ rs \in Seq(Sound)
  <2>1. <<mid>> \in Seq(Sound)
    BY <1>10, SingleRegion
  <2>2. rs \in Seq(Sound)
    BY <1>11, <2>1, Concatenated
  <2>3. Few(rs) /\ Worths(rs) = Nth(r, 1) + Worth(mid) + Nth(s, 1)
    BY <1>10, <1>11, WorthAround
  <2> QED
    BY <1>12, <2>2, <2>3
<1>14. Longest(0, n, 0, m) <= Worths(rs) /\ Longest(0, n, 0, m) \in Nat /\ Worths(rs) \in Nat
  <2>1. Longest(0, n, 0, m) <= p + Longest(p, n - q, p, m - q) + (n - (n - q))
    <3> HIDE DEF n, m
    <3> QED
      BY <1>2, <1>5, <1>6, TrimmedWorth
  <2>2. Longest(0, n, 0, m) \in Nat /\ Longest(p, n - q, p, m - q) \in Nat
    BY <1>2, <1>5, <1>8, LongestIsNat
  <2> QED
    BY <1>2, <1>5, <1>6, <1>10, <1>13, <2>1, <2>2
<1>15. ASSUME FitsTable PROVE todo' = rs
  <2>1. Top = Full /\ Tail(todo) = <<>>
    <3>1. <<Full>> \in Seq({Full}) /\ Len(<<Full>>) = 1 /\ <<Full>> # <<>>
      OBVIOUS
    <3>2. Tail(<<Full>>) \in Seq({Full}) /\ Len(Tail(<<Full>>)) = 1 - 1
      BY <3>1, HeadTailProperties
    <3>3. Tail(<<Full>>) = <<>>
      BY <3>2, EmptyLen
    <3>4. todo = <<Full>> /\ todo \in Seq(Sound) /\ Len(todo) = 1
      BY <1>2, <1>3, <1>15, <3>1
    <3>5. Top = todo[1] /\ todo[1] = Full
      BY <3>1, <3>4 DEF Top
    <3> QED
      BY <3>3, <3>4, <3>5
  <2>2. (n - p - q) * (m - p - q) <= maxLCSCells
    BY <1>15 DEF FitsTable, g, p, q, Full
  <2>3. Prefix(Top) = p /\ Suffix(Top, p) = q
    BY <2>1 DEF p, q, g
  <2>4. /\ Top.a1 = 0 /\ Top.a2 = n /\ Top.b1 = 0 /\ Top.b2 = m
    BY <1>4, <2>1 DEF g
  <2>5. mid = Slice("lcs", Top.a1 + p, Top.a2 - q, Top.b1 + p, Top.b2 - q)
    BY <1>8, <2>4 DEF mid
  <2>6. Width(mid) = n - p - q /\ Height(mid) = m - p - q
    BY <1>2, <1>5, <1>6, <1>9 DEF Width, Height
  <2>7. Width(mid) * Height(mid) <= maxLCSCells
    BY <2>2, <2>6
  <2>8. /\ r = Copied(Top.a1, Top.a1 + p, Top.b1, Top.b1 + p)
        /\ s = Copied(Top.a2 - q, Top.a2, Top.b2 - q, Top.b2)
    BY <1>8, <2>4 DEF r, s
  <2> HIDE DEF n, m
  <2>9. Push((r \o <<mid>>) \o s)
    BY <2>3, <2>5, <2>7, <2>8 DEF Trim
  <2>10. todo' = rs \o <<>>
    BY <2>1, <2>9 DEF Push
  <2> QED
    BY <1>13, <2>10, ConcatEmptySeq
<1>16. ASSUME FitsTable PROVE Reachable(edits, rs)
  <2>1. Kept(edits) \in Nat
    <3>1. <<>> \in Seq(Edit) /\ AllAre(<<>>, "equal")
      BY EmptySeq DEF AllAre
    <3> QED
      BY <1>2, <3>1, KeptConcat
  <2> HIDE DEF rs
  <2> QED
    BY <1>14, <2>1 DEF Reachable
<1>17. CASE FitsTable
  <2> HIDE DEF rs
  <2> QED
    BY <1>1, <1>13, <1>15, <1>16, <1>17, MinStep
<1>18. CASE ~FitsTable
  BY <1>1, <1>18, FitsStable DEF MinInv
<1> QED
  BY <1>17, <1>18

LEMMA MinQuiet ==
  ASSUME MinInv, UNCHANGED input, todo' = todo, edits' = edits
  PROVE  MinInv'
<1>1. Reachable(edits, todo)' <=> Reachable(edits, todo)
  BY ReachableStable
<1>2. FitsTable' <=> FitsTable
  BY FitsStable
<1>3. Few(todo)' <=> Few(todo)
  BY DEF Few
<1>4. Full' = Full
  BY DEF Full, input
<1> QED
  BY <1>1, <1>2, <1>3, <1>4 DEF MinInv

LEMMA MinSplit ==
  ASSUME IInv, MinInv, Split
  PROVE  MinInv'
<1>1. todo # <<>> /\ Top.task = "anchored" /\ UNCHANGED input
  BY DEF Split, Pending
<1>2. ~FitsTable
  BY <1>1, MinTop
<1> QED
  BY <1>1, <1>2, FitsStable DEF MinInv

(* diff.go:61-62: where the table fits, no common subsequence is longer    *)
(* than the lines that the script keeps; for all lists and table sizes.    *)
THEOREM DiffIsMinimal == Spec => []MinimalWhereExact
<1>1. Init => MinInv
  BY DEF Init, MinInv, Full
<1>2. IInv /\ MinInv /\ [Next]_vars => MinInv'
  <2>1. ASSUME MinInv, Resolve PROVE MinInv'
    BY <2>1, MinQuiet DEF Resolve
  <2>2. ASSUME MinInv, UNCHANGED vars PROVE MinInv'
    BY <2>2, MinQuiet DEF vars, input
  <2> QED
    BY <2>1, <2>2, MinTrim, MinKeep, MinSplit, MinReplace, MinWalk, MinFlush DEF Next
<1>3. IInv /\ MinInv => MinimalWhereExact
  <2>1. SUFFICES ASSUME IInv, MinInv, Finished, FitsTable,
                        NEW is \in kSubset(KeptLines + 1, DOMAIN a),
                        NEW js \in kSubset(KeptLines + 1, DOMAIN b), CommonTo(is, js)
                 PROVE  FALSE
    BY DEF MinimalWhereExact
  <2>2. todo = <<>> /\ Len(todo) = 0 /\ edits \in Seq(Edit) /\ a \in Seq(Text) /\ b \in Seq(Text)
        /\ todo # <<Full>>
    BY <2>1 DEF Finished, IInv, Typed
  <2>3. Longest(0, Len(a), 0, Len(b)) <= Kept(edits) + Worths(todo)
    BY <2>1, <2>2 DEF MinInv, Reachable
  <2>4. Worths(todo) = 0
    BY <2>2 DEF Worths, Nth
  <2>5. KeptLines = Kept(edits)
    <3>1. DOMAIN edits = 1..Len(edits)
      BY <2>2, LenProperties
    <3> QED
      BY <3>1 DEF KeptLines, Kept
  <2>6. Kept(edits) \in Nat
    <3>1. <<>> \in Seq(Edit) /\ AllAre(<<>>, "equal")
      BY EmptySeq DEF AllAre
    <3> QED
      BY <2>2, <3>1, KeptConcat
  <2> DEFINE k == KeptLines + 1
  <2>7. k \in Nat /\ k = Kept(edits) + 1
    BY <2>5, <2>6
  <2>8. k <= Longest(0, Len(a), 0, Len(b))
    <3>1. is \in kSubset(k, DOMAIN a) /\ js \in kSubset(k, DOMAIN b)
      BY <2>1
    <3> HIDE DEF k
    <3> QED
      BY <2>1, <2>2, <2>7, <3>1, CommonIsMatching
  <2>9. Longest(0, Len(a), 0, Len(b)) \in Nat
    <3>1. Len(a) \in Nat /\ Len(b) \in Nat /\ 0 \in Nat
      BY <2>2, LenProperties
    <3> QED
      BY <3>1, LongestIsNat
  <2> HIDE DEF k
  <2> QED
    BY <2>3, <2>4, <2>6, <2>7, <2>8, <2>9
<1> QED
  BY <1>1, <1>2, <1>3, ScriptInvariant, PTL DEF Spec

-----------------------------------------------------------------------------
(* Similar bodies.  Where a line stands among the first n, and how often.  *)
Places(s, l, n) == {k \in 1..n : s[k] = l}
Times(s, l, n) == Cardinality(Places(s, l, n))

(* The lines of b that commonLines finds a partner for among the first n,  *)
(* and what is left of the counts of a.                                    *)
Partnered(n) == {j \in 1..n : Times(b, b[j], j) <= Times(a, b[j], Len(a))}
Spare(l, n) == IF Times(b, l, n) < Times(a, l, Len(a)) THEN Times(a, l, Len(a)) - Times(b, l, n) ELSE 0
After(n) == [counts |-> [l \in Range(a) |-> Spare(l, n)], common |-> Cardinality(Partnered(n))]

LEMMA PlacesFinite ==
  ASSUME NEW s, NEW l, NEW n \in Nat
  PROVE  /\ Places(s, l, n) \in SUBSET (1..n) /\ IsFiniteSet(Places(s, l, n))
         /\ Times(s, l, n) \in Nat
<1>1. IsFiniteSet(1..n)
  <2>1. 1 \in Int /\ n \in Int
    OBVIOUS
  <2> QED
    BY <2>1, FS_Interval
<1>2. Places(s, l, n) \in SUBSET (1..n)
  BY DEF Places
<1>3. IsFiniteSet(Places(s, l, n))
  BY <1>1, <1>2, FS_Subset
<1> QED
  BY <1>2, <1>3, FS_CardinalityType DEF Times

LEMMA TimesStep ==
  ASSUME NEW s, NEW l, NEW n \in Nat, NEW m \in Nat, m = n + 1
  PROVE  Times(s, l, m) = IF s[m] = l THEN Times(s, l, n) + 1 ELSE Times(s, l, n)
<1>1. m \notin Places(s, l, n)
  BY DEF Places
<1>2. CASE s[m] = l
  <2>1. Places(s, l, m) = Places(s, l, n) \cup {m}
    BY <1>2 DEF Places
  <2>2. IsFiniteSet(Places(s, l, n))
    BY PlacesFinite
  <2> QED
    BY <1>1, <1>2, <2>1, <2>2, FS_AddElement DEF Times
<1>3. CASE s[m] # l
  <2>1. Places(s, l, m) = Places(s, l, n)
    BY <1>3 DEF Places
  <2> QED
    BY <1>3, <2>1 DEF Times
<1> QED
  BY <1>2, <1>3

LEMMA TimesStart == ASSUME NEW s, NEW l PROVE Times(s, l, 0) = 0
<1>1. Places(s, l, 0) = {}
  BY DEF Places
<1> QED
  BY <1>1, FS_EmptySet DEF Times

LEMMA PartneredFinite ==
  ASSUME NEW n \in Nat
  PROVE  /\ Partnered(n) \in SUBSET (1..n) /\ IsFiniteSet(Partnered(n))
         /\ Cardinality(Partnered(n)) \in Nat
<1>1. IsFiniteSet(1..n)
  <2>1. 1 \in Int /\ n \in Int
    OBVIOUS
  <2> QED
    BY <2>1, FS_Interval
<1>2. Partnered(n) \in SUBSET (1..n)
  BY DEF Partnered
<1>3. IsFiniteSet(Partnered(n))
  BY <1>1, <1>2, FS_Subset
<1> QED
  BY <1>2, <1>3, FS_CardinalityType

(* One line of commonLines' second loop.                                   *)
LEMMA MatchedStep ==
  ASSUME a \in Seq(Text), b \in Seq(Text), NEW n \in Nat, NEW m \in Nat, m = n + 1
  PROVE  Matched(After(n), b[m]) = After(m)
<1> DEFINE l == b[m]
           st == After(n)
           ca == Times(a, l, Len(a))
<1>1. Len(a) \in Nat /\ Len(b) \in Nat /\ DOMAIN a = 1..Len(a)
  BY LenProperties
<1>2. /\ st.counts = [x \in Range(a) |-> Spare(x, n)] /\ st.common = Cardinality(Partnered(n))
      /\ DOMAIN st.counts = Range(a)
  BY DEF After
<1>3. ca \in Nat /\ Times(b, l, n) \in Nat /\ Times(b, l, m) = Times(b, l, n) + 1
  BY <1>1, PlacesFinite, TimesStep
<1>4. ca > 0 => l \in Range(a)
  <2>1. l \notin Range(a) => Places(a, l, Len(a)) = {}
    BY <1>1 DEF Places, Range
  <2>2. l \notin Range(a) => ca = 0
    BY <2>1, FS_EmptySet DEF Times
  <2> QED
    BY <1>3, <2>2
<1>5. \A x : x # l => Spare(x, m) = Spare(x, n)
  <2>1. \A x : x # l => Times(b, x, m) = Times(b, x, n)
    BY TimesStep
  <2> QED
    BY <2>1 DEF Spare
<1>6. (l \in DOMAIN st.counts /\ st.counts[l] > 0) <=> Times(b, l, n) < ca
  <2>1. l \in Range(a) => st.counts[l] = Spare(l, n)
    BY <1>2
  <2>2. Spare(l, n) > 0 <=> Times(b, l, n) < ca
    BY <1>3 DEF Spare
  <2> QED
    BY <1>2, <1>3, <1>4, <2>1, <2>2
<1>7. m \notin Partnered(n) /\ IsFiniteSet(Partnered(n))
  BY PartneredFinite DEF Partnered
<1>8. m \in Partnered(m) <=> Times(b, l, n) < ca
  BY <1>3 DEF Partnered
<1>9. Partnered(m) = IF Times(b, l, n) < ca THEN Partnered(n) \cup {m} ELSE Partnered(n)
  <2>1. \A j : j \in 1..m <=> j \in 1..n \/ j = m
    OBVIOUS
  <2>2. \A j : j # m => (j \in Partnered(m) <=> j \in Partnered(n))
    BY <2>1 DEF Partnered
  <2>3. \A j : j \in Partnered(m) <=> j \in Partnered(n) \/ (j = m /\ Times(b, l, n) < ca)
    BY <1>7, <1>8, <2>2
  <2> HIDE DEF ca, l
  <2> QED
    BY <2>3
<1>10. CASE Times(b, l, n) < ca
  <2>1. Spare(l, m) = Spare(l, n) - 1
    BY <1>3, <1>10 DEF Spare
  <2>2. Cardinality(Partnered(m)) = Cardinality(Partnered(n)) + 1
    BY <1>7, <1>9, <1>10, FS_AddElement
  <2>3. Matched(st, l) = [counts |-> [st.counts EXCEPT ![l] = st.counts[l] - 1], common |-> st.common + 1]
    BY <1>6, <1>10 DEF Matched
  <2>4. [st.counts EXCEPT ![l] = st.counts[l] - 1] = [x \in Range(a) |-> Spare(x, m)]
    <3> HIDE DEF st, l
    <3> QED
      BY <1>2, <1>5, <2>1
  <2> QED
    BY <1>2, <2>2, <2>3, <2>4 DEF After
<1>11. CASE ~(Times(b, l, n) < ca)
  <2>1. Spare(l, m) = Spare(l, n)
    BY <1>3, <1>11 DEF Spare
  <2>2. Cardinality(Partnered(m)) = Cardinality(Partnered(n))
    BY <1>9, <1>11
  <2>3. Matched(st, l) = st
    BY <1>6, <1>11 DEF Matched
  <2>4. [x \in Range(a) |-> Spare(x, n)] = [x \in Range(a) |-> Spare(x, m)]
    BY <1>5, <2>1
  <2> QED
    BY <2>2, <2>3, <2>4 DEF After
<1> QED
  BY <1>10, <1>11

(* The loop finds a partner for each line that occurs no more often before *)
(* and at it than it does in a.                                            *)
LEMMA CommonIsPartnered ==
  ASSUME a \in Seq(Text), b \in Seq(Text)
  PROVE  CommonLines = Cardinality(Partnered(Len(b)))
<1> DEFINE start == [counts |-> [l \in Range(a) |-> Cardinality({k \in DOMAIN a : a[k] = l})], common |-> 0]
           D == 0..Len(b)
           Body(f, n) == IF n = 0 THEN start ELSE Matched(f[n - 1], b[n])
           t == CHOOSE f : f = [n \in D |-> Body(f, n)]
           l == [n \in D |-> After(n)]
<1>1. CommonLines = t[Len(b)].common
  BY DEF CommonLines
<1>2. Len(a) \in Nat /\ Len(b) \in Nat /\ DOMAIN a = 1..Len(a)
  BY LenProperties
<1>3. start = After(0)
  <2>1. \A x : {k \in DOMAIN a : a[k] = x} = Places(a, x, Len(a))
    BY <1>2 DEF Places
  <2>2. \A x : Spare(x, 0) = Cardinality({k \in DOMAIN a : a[k] = x})
    <3> SUFFICES ASSUME NEW x PROVE Spare(x, 0) = Times(a, x, Len(a))
      BY <2>1 DEF Times
    <3>1. Times(a, x, Len(a)) \in Nat /\ Times(b, x, 0) = 0
      BY <1>2, PlacesFinite, TimesStart
    <3> QED
      BY <3>1 DEF Spare
  <2>3. Partnered(0) = {}
    BY DEF Partnered
  <2>4. Cardinality(Partnered(0)) = 0
    BY <2>3, FS_EmptySet
  <2> QED
    BY <2>2, <2>4 DEF After
<1> HIDE DEF start
<1>4. ASSUME NEW f, NEW n \in D, n # 0 => f[n - 1] = After(n - 1) PROVE Body(f, n) = After(n)
  <2>1. CASE n = 0
    BY <1>3, <2>1
  <2>2. CASE n # 0
    <3> DEFINE m == n - 1
    <3>1. n \in Nat /\ m \in Nat /\ n = m + 1
      BY <1>2, <2>2
    <3> HIDE DEF m
    <3>2. Matched(After(m), b[n]) = After(n)
      BY <3>1, MatchedStep
    <3> QED
      BY <1>4, <2>2, <3>2 DEF m
  <2> QED
    BY <2>1, <2>2
<1>5. ASSUME NEW n \in D, n # 0 PROVE n - 1 \in D
  BY <1>2, <1>5
<1> HIDE DEF D, Body
<1>6. l = [n \in D |-> Body(l, n)]
  <2>1. ASSUME NEW n \in D PROVE Body(l, n) = After(n)
    BY <1>4, <1>5
  <2> QED
    BY <2>1
<1>7. t = [n \in D |-> Body(t, n)]
  <2> HIDE DEF l
  <2> QED
    BY <1>6
<1> HIDE DEF t
<1>8. \A n \in D : t[n] = Body(t, n)
  BY <1>7
<1> DEFINE S == {n \in D : t[n] # After(n)}
<1>9. S = {}
  <2>1. SUFFICES ASSUME S # {} PROVE FALSE
    OBVIOUS
  <2>2. S \in SUBSET Nat
    BY <1>2 DEF D
  <2>3. PICK n \in S : \A m \in S : n <= m
    <3> HIDE DEF S
    <3> QED
      BY <2>1, <2>2, LeastElement
  <2>4. n \in D /\ n \in Nat /\ t[n] # After(n)
    BY <2>2, <2>3
  <2>5. n # 0 => t[n - 1] = After(n - 1)
    <3>1. n # 0 => n - 1 \in D /\ ~(n <= n - 1)
      BY <1>5, <2>4
    <3> QED
      BY <2>3, <3>1
  <2>6. Body(t, n) = After(n)
    BY <1>4, <2>4, <2>5
  <2> QED
    BY <1>8, <2>4, <2>6
<1>10. Len(b) \in D
  BY <1>2 DEF D
<1>11. t[Len(b)] = After(Len(b))
  BY <1>9, <1>10
<1> QED
  BY <1>1, <1>11 DEF After
Shared == {k \in DOMAIN lines : lines[k].op = "equal"}
SharedAs(l) == {k \in Shared : lines[k].text = l}

(* An order on both sides: increasing numbers, none twice.                 *)
LEMMA Embeds ==
  ASSUME NEW S \in SUBSET Nat, NEW f, NEW T, IsFiniteSet(T),
         \A k \in S : f[k] \in T,
         \A j, k \in S : j < k => f[j] < f[k],
         \A k \in S : f[k] \in Nat
  PROVE  IsFiniteSet(S) /\ Cardinality(S) <= Cardinality(T)
<1> DEFINE g == [k \in S |-> f[k]]
<1>1. g \in [S -> T]
  OBVIOUS
<1>2. ASSUME NEW j \in S, NEW k \in S, g[j] = g[k] PROVE j = k
  <2>1. ~(j < k) /\ ~(k < j) /\ j \in Nat /\ k \in Nat
    BY <1>2
  <2> QED
    BY <2>1
<1>3. g \in Injection(S, T)
  <2> HIDE DEF g
  <2> QED
    BY <1>1, <1>2 DEF Injection, IsInjective
<1> QED
  BY <1>3, FS_Injection

(* What the reports and bodySimilar count: the lines shown as equal.       *)
LEMMA SharedFacts ==
  ASSUME IInv, Finished
  PROVE  /\ Shared = {k \in DOMAIN edits : edits[k].op = "equal"}
         /\ Cardinality(Shared) = KeptLines
         /\ Shared \in SUBSET Nat /\ IsFiniteSet(Shared) /\ KeptLines \in Nat
<1>1. PICK o, n : Resolved(o, n)
  BY DEF IInv, ScriptInv
<1>2. /\ DOMAIN lines = 1..Len(lines) /\ DOMAIN edits = 1..Len(edits)
      /\ Len(lines) = Len(edits) /\ Len(lines) \in Nat
  BY LenProperties DEF IInv, Typed, Finished
<1>3. ASSUME NEW k \in 1..Len(lines) PROVE lines[k].op = edits[k].op
  <2>1. lines[k] = [op   |-> edits[k].op,
                    old  |-> IF edits[k].op = "insert" THEN NoAddr ELSE o[k - 1],
                    new  |-> IF edits[k].op = "delete" THEN NoAddr ELSE n[k - 1],
                    text |-> edits[k].text]
    BY <1>1, Zenon DEF Resolved
  <2> QED
    BY <2>1
<1>4. Shared = {k \in DOMAIN edits : edits[k].op = "equal"}
  <2>1. \A k : k \in DOMAIN lines <=> k \in DOMAIN edits
    BY <1>2
  <2>2. \A k \in DOMAIN lines : lines[k].op = edits[k].op
    BY <1>2, <1>3
  <2> QED
    BY <2>1, <2>2 DEF Shared
<1>5. Shared \in SUBSET (1..Len(lines))
  BY <1>2 DEF Shared
<1>6. IsFiniteSet(1..Len(lines))
  <2>1. 1 \in Int /\ Len(lines) \in Int
    BY <1>2
  <2> QED
    BY <2>1, FS_Interval
<1>7. IsFiniteSet(Shared)
  BY <1>5, <1>6, FS_Subset
<1>8. Cardinality(Shared) = KeptLines
  BY <1>4 DEF KeptLines
<1>9. Cardinality(Shared) \in Nat
  BY <1>7, FS_CardinalityType
<1>10. Shared \in SUBSET Nat
  BY <1>5
<1> QED
  BY <1>4, <1>7, <1>8, <1>9, <1>10

(* A text is shown as equal no more often than it occurs on either side.   *)
LEMMA SharedBounds ==
  ASSUME IInv, Finished, NEW l
  PROVE  /\ IsFiniteSet(SharedAs(l))
         /\ Cardinality(SharedAs(l)) <= Times(a, l, Len(a))
         /\ Cardinality(SharedAs(l)) <= Times(b, l, Len(b))
<1>1. LinesMatchInstructions
  BY ScriptMatches
<1>2. Len(a) \in Nat /\ Len(b) \in Nat /\ SharedAs(l) \in SUBSET Nat
  <2>1. SharedAs(l) \in SUBSET Shared
    BY DEF SharedAs
  <2> QED
    BY <2>1, SharedFacts, LenProperties DEF IInv, Typed
<1>3. \A k \in SharedAs(l) : k \in ShownOld /\ k \in ShownNew /\ lines[k].text = l
  BY DEF SharedAs, Shared, ShownOld, ShownNew
<1>4. IsFiniteSet(SharedAs(l)) /\ Cardinality(SharedAs(l)) <= Times(a, l, Len(a))
  <2> DEFINE f == [k \in SharedAs(l) |-> lines[k].old + 1]
  <2>1. ASSUME NEW k \in SharedAs(l)
        PROVE  lines[k].old \in 0..(Len(a) - 1) /\ a[lines[k].old + 1] = l
    BY <1>1, <1>3, <2>1 DEF LinesMatchInstructions, Finished, At
  <2>2. ASSUME NEW k \in SharedAs(l) PROVE f[k] \in Places(a, l, Len(a)) /\ f[k] \in Nat
    BY <1>2, <2>1 DEF Places
  <2>3. ASSUME NEW j \in SharedAs(l), NEW k \in SharedAs(l), j < k PROVE f[j] < f[k]
    <3>1. lines[j].old < lines[k].old
      BY <1>1, <1>3, <2>3 DEF LinesMatchInstructions
    <3> QED
      BY <1>2, <2>1, <3>1
  <2> HIDE DEF f
  <2>4. IsFiniteSet(Places(a, l, Len(a)))
    BY <1>2, PlacesFinite
  <2> QED
    BY <1>2, <2>2, <2>3, <2>4, Embeds DEF Times
<1>5. Cardinality(SharedAs(l)) <= Times(b, l, Len(b))
  <2> DEFINE f == [k \in SharedAs(l) |-> lines[k].new + 1]
  <2>1. ASSUME NEW k \in SharedAs(l)
        PROVE  lines[k].new \in 0..(Len(b) - 1) /\ b[lines[k].new + 1] = l
    BY <1>1, <1>3, <2>1 DEF LinesMatchInstructions, Finished, At
  <2>2. ASSUME NEW k \in SharedAs(l) PROVE f[k] \in Places(b, l, Len(b)) /\ f[k] \in Nat
    BY <1>2, <2>1 DEF Places
  <2>3. ASSUME NEW j \in SharedAs(l), NEW k \in SharedAs(l), j < k PROVE f[j] < f[k]
    <3>1. lines[j].new < lines[k].new
      BY <1>1, <1>3, <2>3 DEF LinesMatchInstructions
    <3> QED
      BY <1>2, <2>1, <3>1
  <2> HIDE DEF f
  <2>4. IsFiniteSet(Places(b, l, Len(b)))
    BY <1>2, PlacesFinite
  <2> QED
    BY <1>2, <2>2, <2>3, <2>4, Embeds DEF Times
<1> QED
  BY <1>4, <1>5

(* Each line shown as equal goes to the line of b that is of its rank among*)
(* those of its text: none goes astray, and no two to the same.            *)
LEMMA KeptAreCommon ==
  ASSUME IInv, Finished
  PROVE  KeptLines <= CommonLines /\ CommonLines \in Nat
<1> DEFINE N == Len(b)
           text(k) == lines[k].text
           P(l) == Places(b, l, N)
           f == [k \in Shared |-> CHOOSE j \in P(text(k)) : Rank(P(text(k)), j) = Rank(SharedAs(text(k)), k)]
<1>1. N \in Nat /\ Len(a) \in Nat /\ CommonLines = Cardinality(Partnered(N))
  BY CommonIsPartnered, LenProperties DEF IInv, Typed
<1>2. ASSUME NEW l
      PROVE  /\ P(l) \in SUBSET Nat /\ IsFiniteSet(P(l)) /\ P(l) \in SUBSET (1..N)
             /\ SharedAs(l) \in SUBSET Nat /\ IsFiniteSet(SharedAs(l))
             /\ Cardinality(SharedAs(l)) \in Nat /\ Times(a, l, Len(a)) \in Nat
             /\ Cardinality(P(l)) \in Nat
             /\ Cardinality(SharedAs(l)) <= Times(a, l, Len(a))
             /\ Cardinality(SharedAs(l)) <= Cardinality(P(l))
  <2>1. P(l) \in SUBSET (1..N) /\ IsFiniteSet(P(l)) /\ Times(a, l, Len(a)) \in Nat
        /\ Cardinality(P(l)) \in Nat
    BY <1>1, PlacesFinite DEF Times
  <2>2. SharedAs(l) \in SUBSET Shared
    BY DEF SharedAs
  <2>3. SharedAs(l) \in SUBSET Nat
    BY <2>2, SharedFacts
  <2>4. IsFiniteSet(SharedAs(l)) /\ Cardinality(SharedAs(l)) <= Times(a, l, Len(a))
        /\ Cardinality(SharedAs(l)) <= Cardinality(P(l))
    BY SharedBounds DEF Times
  <2>5. Cardinality(SharedAs(l)) \in Nat
    BY <2>4, FS_CardinalityType
  <2>6. P(l) \in SUBSET Nat
    BY <1>1, <2>1
  <2> QED
    BY <2>1, <2>3, <2>4, <2>5, <2>6
<1>3. ASSUME NEW k \in Shared
      PROVE  /\ f[k] \in P(text(k)) /\ Rank(P(text(k)), f[k]) = Rank(SharedAs(text(k)), k)
             /\ Rank(SharedAs(text(k)), k) < Times(a, text(k), Len(a))
             /\ Rank(SharedAs(text(k)), k) \in Nat
  <2> DEFINE l == text(k)
             r == Rank(SharedAs(l), k)
  <2>1. k \in SharedAs(l)
    BY DEF SharedAs
  <2> HIDE DEF l, P
  <2>2. r \in 0..(Cardinality(SharedAs(l)) - 1)
    BY <1>2, <2>1, RankFacts
  <2>3. r \in 0..(Cardinality(P(l)) - 1) /\ r < Times(a, l, Len(a)) /\ r \in Nat
    BY <1>2, <2>2
  <2>4. \E j \in P(l) : Rank(P(l), j) = r
    BY <1>2, <2>3, RankFacts
  <2>5. f[k] = CHOOSE j \in P(l) : Rank(P(l), j) = r
    BY DEF l
  <2> HIDE DEF f
  <2> QED
    BY <2>3, <2>4, <2>5 DEF l
<1>4. ASSUME NEW k \in Shared PROVE f[k] \in Partnered(N)
  <2> DEFINE l == text(k)
             j == f[k]
  <2>1. j \in P(l) /\ Rank(P(l), j) < Times(a, l, Len(a)) /\ Rank(P(l), j) \in Nat
    BY <1>3
  <2> HIDE DEF l, j, f
  <2>2. j \in 1..N /\ b[j] = l /\ j \in Nat
    BY <1>1, <2>1 DEF Places
  <2>3. Times(b, l, j) = Rank(P(l), j) + 1
    <3> DEFINE Q == {m \in P(l) : m < j}
    <3>1. Places(b, l, j) = Q \cup {j}
      BY <1>1, <2>2 DEF Places
    <3>2. j \notin Q /\ IsFiniteSet(Q)
      <4>1. Q \in SUBSET P(l) /\ j \notin Q
        BY <2>2
      <4> HIDE DEF Q, P
      <4> QED
        BY <1>2, <4>1, FS_Subset
    <3> HIDE DEF Q
    <3>3. Cardinality(Q \cup {j}) = Cardinality(Q) + 1
      BY <3>2, FS_AddElement
    <3> QED
      BY <3>1, <3>3 DEF Times, Rank, Q
  <2>4. Times(b, l, j) <= Times(a, l, Len(a))
    BY <1>2, <2>1, <2>3
  <2> QED
    BY <2>2, <2>4 DEF Partnered, j
<1>5. ASSUME NEW j \in Shared, NEW k \in Shared, f[j] = f[k] PROVE j = k
  <2>1. text(j) = text(k)
    BY <1>3, <1>5 DEF Places
  <2> DEFINE l == text(k)
  <2>2. j \in SharedAs(l) /\ k \in SharedAs(l)
    BY <2>1 DEF SharedAs
  <2>3. Rank(SharedAs(l), j) = Rank(SharedAs(l), k) /\ Rank(SharedAs(l), k) \in Nat
    BY <1>3, <1>5, <2>1
  <2> HIDE DEF l, f, P
  <2>4. ~(j < k) /\ ~(k < j) /\ j \in Nat /\ k \in Nat
    BY <1>2, <2>2, <2>3, RankFacts
  <2> QED
    BY <2>4
<1>6. f \in Injection(Shared, Partnered(N))
  <2>1. f \in [Shared -> Partnered(N)]
    BY <1>4
  <2> HIDE DEF f
  <2> QED
    BY <1>5, <2>1 DEF Injection, IsInjective
<1>7. IsFiniteSet(Partnered(N)) /\ Cardinality(Partnered(N)) \in Nat
  BY <1>1, PartneredFinite
<1>8. Cardinality(Shared) <= Cardinality(Partnered(N))
  <2> HIDE DEF f, N
  <2> QED
    BY <1>6, <1>7, FS_Injection
<1> QED
  BY <1>1, <1>7, <1>8, SharedFacts

LEMMA KeptAreShort ==
  ASSUME IInv, Finished
  PROVE  KeptLines <= Len(a) /\ KeptLines <= Len(b)
<1>1. LinesMatchInstructions
  BY ScriptMatches
<1>2. Len(a) \in Nat /\ Len(b) \in Nat
  BY LenProperties DEF IInv, Typed
<1>3. Shared \in SUBSET ShownOld /\ Shared \in SUBSET ShownNew
  BY DEF Shared, ShownOld, ShownNew
<1>4. \A n \in Nat : IsFiniteSet(0..(n - 1)) /\ Cardinality(0..(n - 1)) = n
  <2> SUFFICES ASSUME NEW n \in Nat PROVE IsFiniteSet(0..(n - 1)) /\ Cardinality(0..(n - 1)) = n
    OBVIOUS
  <2>1. 0 \in Int /\ n - 1 \in Int
    OBVIOUS
  <2>2. /\ IsFiniteSet(0..(n - 1))
        /\ Cardinality(0..(n - 1)) = IF 0 > n - 1 THEN 0 ELSE (n - 1) - 0 + 1
    BY <2>1, FS_Interval
  <2> QED
    BY <2>2
<1>5. Cardinality(Shared) <= Cardinality(0..(Len(a) - 1))
  <2> DEFINE T == 0..(Len(a) - 1)
             f == [k \in Shared |-> lines[k].old]
  <2>1. \A k \in Shared : f[k] \in T /\ f[k] \in Nat
    BY <1>1, <1>2, <1>3 DEF LinesMatchInstructions
  <2>2. \A j, k \in Shared : j < k => f[j] < f[k]
    BY <1>1, <1>3 DEF LinesMatchInstructions
  <2>3. IsFiniteSet(T) /\ Shared \in SUBSET Nat
    BY <1>2, <1>4, SharedFacts
  <2> HIDE DEF f, T
  <2>4. Cardinality(Shared) <= Cardinality(T)
    BY <2>1, <2>2, <2>3, Embeds
  <2> QED
    BY <2>4 DEF T
<1>6. Cardinality(Shared) <= Cardinality(0..(Len(b) - 1))
  <2> DEFINE T == 0..(Len(b) - 1)
             f == [k \in Shared |-> lines[k].new]
  <2>1. \A k \in Shared : f[k] \in T /\ f[k] \in Nat
    BY <1>1, <1>2, <1>3 DEF LinesMatchInstructions
  <2>2. \A j, k \in Shared : j < k => f[j] < f[k]
    BY <1>1, <1>3 DEF LinesMatchInstructions
  <2>3. IsFiniteSet(T) /\ Shared \in SUBSET Nat
    BY <1>2, <1>4, SharedFacts
  <2> HIDE DEF f, T
  <2>4. Cardinality(Shared) <= Cardinality(T)
    BY <2>1, <2>2, <2>3, Embeds
  <2> QED
    BY <2>4 DEF T
<1> QED
  BY <1>2, <1>4, <1>5, <1>6, SharedFacts

LEMMA EnoughGrows ==
  ASSUME IInv, NEW m \in Nat, NEW n \in Nat, m <= n, Enough(m)
  PROVE  Enough(n)
<1> DEFINE X == Maximum(Len(a), Len(b)) * similarNum
<1>1. similarDen \in Nat /\ similarNum \in Nat /\ Len(a) \in Nat /\ Len(b) \in Nat
  BY SimilarAssumption, LenProperties DEF IInv, Typed
<1>2. X \in Int
  BY <1>1 DEF Maximum
<1>3. m * similarDen >= X
  BY DEF Enough
<1>4. n * similarDen >= m * similarDen /\ n * similarDen \in Int /\ m * similarDen \in Int
  BY <1>1
<1> HIDE DEF X
<1>5. n * similarDen >= X
  BY <1>2, <1>3, <1>4
<1> QED
  BY <1>5 DEF Enough, X

(* The edit script keeps no more lines than the shorter side has, nor than *)
(* the two sides have in common as multisets, whatever script Diff makes.  *)
THEOREM SimilarIsWhatTheScriptSays == Spec => []BoundsRejectNothing
<1>1. ASSUME IInv PROVE BoundsRejectNothing
  <2> SUFFICES ASSUME Finished, NEW f \in Functions, NEW g \in Functions
               PROVE  Similar(f, g) <=>
                        /\ f.pkg = g.pkg /\ f.decodes /\ g.decodes
                        /\ 5 * (Maximum(f.size, g.size) - Minimum(f.size, g.size)) <= Maximum(f.size, g.size)
                        /\ Enough(Cardinality(Shared))
    BY DEF BoundsRejectNothing, Shared
  <2>1. /\ Cardinality(Shared) = KeptLines /\ KeptLines \in Nat
        /\ KeptLines <= CommonLines /\ CommonLines \in Nat
        /\ KeptLines <= Len(a) /\ KeptLines <= Len(b) /\ Len(a) \in Nat /\ Len(b) \in Nat
    BY <1>1, SharedFacts, KeptAreCommon, KeptAreShort, LenProperties DEF IInv, Typed
  <2>2. Minimum(Len(a), Len(b)) \in Nat /\ KeptLines <= Minimum(Len(a), Len(b))
    BY <2>1 DEF Minimum
  <2>3. Enough(KeptLines) => Enough(CommonLines) /\ Enough(Minimum(Len(a), Len(b)))
    BY <1>1, <2>1, <2>2, EnoughGrows
  <2>4. SizesClose(f, g) <=>
          5 * (Maximum(f.size, g.size) - Minimum(f.size, g.size)) <= Maximum(f.size, g.size)
    <3>1. f.size \in Nat /\ g.size \in Nat
      BY SimilarAssumption
    <3> QED
      BY <3>1 DEF SizesClose, Maximum, Minimum
  <2> QED
    BY <2>1, <2>3, <2>4 DEF Similar
<1> QED
  BY <1>1, ScriptInvariant, PTL

-----------------------------------------------------------------------------
(* Hunks.  A run of lines of a script.                                     *)
(* The lines after i and up to j, in order.                                *)
Spans(s, i, j) == /\ s \in Seq(Nat) /\ Len(s) = j - i
                  /\ \A m \in 1..Len(s) : s[m] = i + m

LEMMA SpansFacts ==
  ASSUME NEW i \in Nat, NEW j \in Nat, i <= j, NEW s, Spans(s, i, j)
  PROVE  /\ s \in Seq(Nat) /\ Len(s) = j - i /\ Len(s) \in Nat /\ DOMAIN s = 1..Len(s)
         /\ \A m \in 1..Len(s) : s[m] = i + m
         /\ s = <<>> <=> i = j
         /\ \A x : x \in Range(s) <=> x \in (i + 1)..j
<1>1. /\ s \in Seq(Nat) /\ Len(s) = j - i /\ Len(s) \in Nat /\ DOMAIN s = 1..Len(s)
      /\ \A m \in 1..Len(s) : s[m] = i + m
  BY LenProperties DEF Spans
<1>2. s = <<>> <=> i = j
  BY <1>1, EmptyLen
<1>3. ASSUME NEW x \in Range(s) PROVE x \in (i + 1)..j
  BY <1>1 DEF Range
<1>4. ASSUME NEW x \in (i + 1)..j PROVE x \in Range(s)
  <2> DEFINE m == x - i
  <2>1. m \in 1..Len(s) /\ x = i + m
    BY <1>1
  <2> QED
    BY <1>1, <2>1 DEF Range
<1> QED
  BY <1>1, <1>2, <1>3, <1>4

LEMMA SpansNothing ==
  ASSUME NEW i \in Nat
  PROVE  Spans(<<>>, i, i)
BY EmptySeq DEF Spans

LEMMA SpansOne ==
  ASSUME NEW i \in Nat, NEW k, k = i + 1
  PROVE  Spans(<<k>>, i, k)
<1>1. <<k>> \in Seq(Nat) /\ Len(<<k>>) = 1 /\ <<k>>[1] = k
  OBVIOUS
<1> QED
  BY <1>1 DEF Spans

LEMMA SpansConcat ==
  ASSUME NEW i \in Nat, NEW j \in Nat, NEW k \in Nat, i <= j, j <= k,
         NEW s, NEW t, Spans(s, i, j), Spans(t, j, k)
  PROVE  Spans(s \o t, i, k)
<1>1. /\ s \in Seq(Nat) /\ Len(s) = j - i /\ \A m \in 1..Len(s) : s[m] = i + m
      /\ t \in Seq(Nat) /\ Len(t) = k - j /\ \A m \in 1..Len(t) : t[m] = j + m
  BY DEF Spans
<1>2. /\ s \o t \in Seq(Nat) /\ Len(s \o t) = Len(s) + Len(t)
      /\ \A m \in 1..Len(s) : (s \o t)[m] = s[m]
      /\ \A m \in 1..Len(t) : (s \o t)[Len(s) + m] = t[m]
  <2>1. s \in Seq(Nat) /\ t \in Seq(Nat)
    BY <1>1
  <2> QED
    BY <2>1, Concatenated
<1>3. ASSUME NEW m \in 1..Len(s \o t) PROVE (s \o t)[m] = i + m
  <2>1. CASE m <= Len(s)
    BY <1>1, <1>2, <2>1
  <2>2. CASE ~(m <= Len(s))
    <3> DEFINE q == m - Len(s)
    <3>1. q \in 1..Len(t) /\ m = Len(s) + q
      BY <1>1, <1>2, <2>2
    <3> HIDE DEF q
    <3>2. (s \o t)[m] = j + q
      BY <1>1, <1>2, <3>1
    <3> QED
      BY <1>1, <3>1, <3>2
  <2> QED
    BY <2>1, <2>2
<1>4. Len(s \o t) = k - i
  BY <1>1, <1>2
<1> QED
  BY <1>2, <1>3, <1>4 DEF Spans

LEMMA SpansAppend ==
  ASSUME NEW i \in Nat, NEW j \in Nat, i <= j, NEW s, Spans(s, i, j), NEW k, k = j + 1
  PROVE  Spans(Append(s, k), i, k)
<1>1. s \in Seq(Nat) /\ Append(s, k) = s \o <<k>>
  BY AppendIsConcat DEF Spans
<1>2. Spans(<<k>>, j, k) /\ k \in Nat /\ j <= k
  BY SpansOne
<1> QED
  BY <1>1, <1>2, SpansConcat

(* The context at either end of a run.                                     *)
LEMMA ContextSpans ==
  ASSUME NEW i \in Nat, NEW j \in Nat, i <= j, NEW s, Spans(s, i, j)
  PROVE  /\ Spans(Beginning(s), i, Minimum(j, i + hunkContext))
         /\ Spans(Ending(s), Maximum(i, j - hunkContext), j)
         /\ Minimum(j, i + hunkContext) \in Nat /\ Maximum(i, j - hunkContext) \in Nat
<1>1. hunkContext \in Nat
  BY ReportAssumption
<1>2. s \in Seq(Nat) /\ Len(s) = j - i /\ Len(s) \in Nat /\ \A m \in 1..Len(s) : s[m] = i + m
  BY SpansFacts
<1>3. ASSUME NEW p \in Nat, NEW q \in Nat, i <= p, p <= q, q <= j
      PROVE  Spans(SubSeq(s, p - i + 1, q - i), p, q)
  <2> DEFINE lo == p - i + 1
             hi == q - i
             r == SubSeq(s, lo, hi)
  <2>1. lo \in Int /\ hi \in Int /\ (lo..hi) \subseteq 1..Len(s) /\ hi - lo + 1 = q - p
        /\ (lo <= hi <=> p < q)
    BY <1>2, <1>3
  <2>2. \A m \in lo..hi : s[m] = i + m /\ i + m \in Nat
    BY <1>2, <2>1
  <2>3. \A m \in lo..hi : s[m] \in Nat
    BY <2>2
  <2> HIDE DEF lo, hi
  <2>4. /\ r \in Seq(Nat) /\ Len(r) = IF lo <= hi THEN hi - lo + 1 ELSE 0
        /\ \A m \in 1..(hi - lo + 1) : r[m] = s[lo + m - 1]
    BY <2>1, <2>3, SubSeqProperties
  <2>5. Len(r) = q - p
    BY <1>3, <2>1, <2>4
  <2>6. ASSUME NEW m \in 1..Len(r) PROVE r[m] = p + m
    <3>1. lo + m - 1 \in lo..hi /\ m \in 1..(hi - lo + 1)
      BY <1>3, <2>1, <2>5
    <3>2. r[m] = i + (lo + m - 1)
      BY <2>2, <2>4, <3>1
    <3>3. m \in Nat /\ i + (lo + m - 1) = p + m
      BY <1>3, <2>5 DEF lo
    <3> QED
      BY <3>2, <3>3
  <2> QED
    BY <2>4, <2>5, <2>6 DEF Spans, r, lo, hi
<1>4. Spans(Beginning(s), i, Minimum(j, i + hunkContext)) /\ Minimum(j, i + hunkContext) \in Nat
  <2> DEFINE q == Minimum(j, i + hunkContext)
  <2>1. q \in Nat /\ i <= q /\ q <= j /\ i - i + 1 = 1 /\ q - i = Minimum(Len(s), hunkContext)
    BY <1>1, <1>2 DEF Minimum
  <2> HIDE DEF q
  <2>2. Spans(SubSeq(s, i - i + 1, q - i), i, q)
    BY <1>3, <2>1
  <2>3. SubSeq(s, i - i + 1, q - i) = Beginning(s)
    BY <2>1 DEF Beginning
  <2> QED
    BY <2>1, <2>2, <2>3 DEF q
<1>5. Spans(Ending(s), Maximum(i, j - hunkContext), j) /\ Maximum(i, j - hunkContext) \in Nat
  <2> DEFINE p == Maximum(i, j - hunkContext)
  <2>1. p \in Nat /\ i <= p /\ p <= j /\ j - i = Len(s) /\ p - i + 1 = Maximum(1, Len(s) - hunkContext + 1)
    BY <1>1, <1>2 DEF Maximum
  <2> HIDE DEF p
  <2>2. Spans(SubSeq(s, p - i + 1, j - i), p, j)
    BY <1>3, <2>1
  <2>3. SubSeq(s, p - i + 1, j - i) = Ending(s)
    BY <2>1 DEF Ending
  <2> QED
    BY <2>1, <2>2, <2>3 DEF p
<1> QED
  BY <1>4, <1>5

-----------------------------------------------------------------------------
(* Hunks are runs of lines, apart from each other; the next one will begin *)
(* after line f.                                                           *)
RunBefore(s, f) == \E i \in Nat, e \in Nat : i < e /\ e < f /\ Spans(s, i, e)
Apart(r, s) == \A l \in Range(r), m \in Range(s) : l + 1 < m

Laid(out, f) == /\ out \in Seq(Seq(Nat))
                /\ \A x \in 1..Len(out) : RunBefore(out[x], f)
                /\ \A x, y \in 1..Len(out) : x < y => Apart(out[x], out[y])

Shown(out) == UNION {Range(out[x]) : x \in DOMAIN out}

(* One of the first c lines is a change close to line l.                   *)
Close(l, c) == l - c <= hunkContext /\ c - l <= hunkContext
Near(l, c) == \E d \in 1..c : OpOf(d) # "equal" /\ Close(l, d)

Equals(c, n) == \A k \in (c + 1)..n : OpOf(k) = "equal"

(* The hunk that is open goes from line f + 1 to c, the last change.       *)
ShownUpTo(out, f, c) == \A l \in 1..c : (l \in Shown(out) \/ l > f) <=> Near(l, c)

Opened(st, f, c, n) == /\ f < c /\ c <= n
                       /\ Spans(st.cur, f, c) /\ Spans(st.pending, c, n)
                       /\ Laid(st.out, f)
                       /\ OpOf(c) # "equal" /\ Equals(c, n)
                       /\ ShownUpTo(st.out, f, c)

Unopened(st, n) == /\ st.cur = <<>> /\ st.out = <<>>
                   /\ Spans(st.pending, 0, n) /\ Equals(0, n)

Groups == [out : Seq(Seq(Nat)), cur : Seq(Nat), pending : Seq(Nat)]
Grouped(st, n) == st \in Groups /\ (Unopened(st, n) \/ \E f \in Nat, c \in Nat : Opened(st, f, c, n))

LEMMA RunBeforeFacts ==
  ASSUME NEW f \in Nat, NEW s, RunBefore(s, f)
  PROVE  /\ s \in Seq(Nat) /\ s # <<>>
         /\ \A l \in Range(s) : l \in Nat /\ l >= 1 /\ l < f
         /\ \A k \in 1..(Len(s) - 1) : s[k + 1] = s[k] + 1
<1>1. PICK i \in Nat : \E e \in Nat : i < e /\ e < f /\ Spans(s, i, e)
  BY DEF RunBefore
<1>2. PICK e \in Nat : i < e /\ e < f /\ Spans(s, i, e)
  BY <1>1
<1>3. /\ s \in Seq(Nat) /\ Len(s) \in Nat /\ \A m \in 1..Len(s) : s[m] = i + m
      /\ s = <<>> <=> i = e
      /\ \A x : x \in Range(s) <=> x \in (i + 1)..e
  <2>1. i <= e
    BY <1>2
  <2> QED
    BY <1>2, <2>1, SpansFacts
<1>4. ASSUME NEW k \in 1..(Len(s) - 1) PROVE s[k + 1] = s[k] + 1
  <2>1. k \in 1..Len(s) /\ k + 1 \in 1..Len(s)
    BY <1>3
  <2> QED
    BY <1>3, <2>1
<1>5. ASSUME NEW l \in Range(s) PROVE l \in Nat /\ l >= 1 /\ l < f
  BY <1>2, <1>3
<1>6. s # <<>>
  BY <1>2, <1>3
<1> QED
  BY <1>3, <1>4, <1>5, <1>6

LEMMA LaidFacts ==
  ASSUME NEW f \in Nat, NEW out, Laid(out, f)
  PROVE  \A l \in Shown(out) : l \in Nat /\ l >= 1 /\ l < f
<1> SUFFICES ASSUME NEW l \in Shown(out) PROVE l \in Nat /\ l >= 1 /\ l < f
  OBVIOUS
<1>1. DOMAIN out = 1..Len(out)
  BY LenProperties DEF Laid
<1>2. PICK x \in 1..Len(out) : l \in Range(out[x])
  BY <1>1 DEF Shown
<1>3. RunBefore(out[x], f)
  BY DEF Laid
<1> QED
  BY <1>2, <1>3, RunBeforeFacts

LEMMA LaidAppend ==
  ASSUME NEW f \in Nat, NEW e \in Nat, NEW g \in Nat, f < e, e < g,
         NEW out, Laid(out, f), NEW h, Spans(h, f, e)
  PROVE  /\ Laid(Append(out, h), g)
         /\ \A l : l \in Shown(Append(out, h)) <=> l \in Shown(out) \/ l \in (f + 1)..e
<1> DEFINE new == Append(out, h)
           n == Len(out)
<1>1. out \in Seq(Seq(Nat)) /\ n \in Nat /\ DOMAIN out = 1..n
  BY LenProperties DEF Laid
<1>2. h \in Seq(Nat) /\ \A x : x \in Range(h) <=> x \in (f + 1)..e
  <2>1. f <= e
    OBVIOUS
  <2> QED
    BY <2>1, SpansFacts
<1>3. /\ new \in Seq(Seq(Nat)) /\ Len(new) = n + 1
      /\ \A x \in 1..n : new[x] = out[x]
      /\ new[n + 1] = h
  BY <1>1, <1>2, AppendProperties
<1>4. DOMAIN new = 1..(n + 1)
  BY <1>3, LenProperties
<1> HIDE DEF new, n
<1>5. RunBefore(h, g)
  BY DEF RunBefore
<1>6. ASSUME NEW x \in 1..n PROVE RunBefore(out[x], f) /\ RunBefore(new[x], g) /\ Apart(new[x], h)
  <2>1. RunBefore(out[x], f)
    BY DEF Laid, n
  <2>2. new[x] = out[x]
    BY <1>3
  <2>3. RunBefore(out[x], g)
    <3>1. PICK i \in Nat : \E d \in Nat : i < d /\ d < f /\ Spans(out[x], i, d)
      BY <2>1 DEF RunBefore
    <3>2. PICK d \in Nat : i < d /\ d < f /\ Spans(out[x], i, d)
      BY <3>1
    <3>3. d < g
      BY <3>2
    <3> QED
      BY <3>2, <3>3 DEF RunBefore
  <2>4. ASSUME NEW l \in Range(out[x]), NEW m \in Range(h) PROVE l + 1 < m
    <3>1. l \in Nat /\ l < f
      BY <2>1, RunBeforeFacts
    <3>2. m \in (f + 1)..e
      BY <1>2
    <3> QED
      BY <3>1, <3>2
  <2> QED
    BY <2>1, <2>2, <2>3, <2>4 DEF Apart
<1>7. ASSUME NEW x \in 1..(n + 1) PROVE RunBefore(new[x], g)
  <2>1. x \in 1..n \/ x = n + 1
    BY <1>1
  <2> QED
    BY <1>3, <1>5, <1>6, <2>1
<1>8. ASSUME NEW x \in 1..(n + 1), NEW y \in 1..(n + 1), x < y PROVE Apart(new[x], new[y])
  <2>1. x \in 1..n
    BY <1>1, <1>8
  <2>2. CASE y = n + 1
    BY <1>3, <1>6, <2>1, <2>2
  <2>3. CASE y # n + 1
    <3>1. y \in 1..n
      BY <1>1, <2>3
    <3>2. Apart(out[x], out[y])
      BY <1>8, <2>1, <3>1 DEF Laid, n
    <3> QED
      BY <1>3, <2>1, <3>1, <3>2
  <2> QED
    BY <2>2, <2>3
<1>9. ASSUME NEW l PROVE l \in Shown(new) <=> l \in Shown(out) \/ l \in Range(h)
  <2>1. l \in Shown(new) <=> \E x \in 1..(n + 1) : l \in Range(new[x])
    BY <1>4 DEF Shown
  <2>2. l \in Shown(out) <=> \E x \in 1..n : l \in Range(out[x])
    BY <1>1 DEF Shown
  <2>3. \A x : x \in 1..(n + 1) <=> x \in 1..n \/ x = n + 1
    BY <1>1
  <2>4. (\E x \in 1..(n + 1) : l \in Range(new[x])) <=> (\E x \in 1..n : l \in Range(new[x])) \/ l \in Range(h)
    BY <1>3, <2>3
  <2>5. (\E x \in 1..n : l \in Range(new[x])) <=> \E x \in 1..n : l \in Range(out[x])
    BY <1>3
  <2> QED
    BY <2>1, <2>2, <2>4, <2>5
<1>10. Laid(new, g)
  BY <1>3, <1>7, <1>8 DEF Laid
<1> QED
  BY <1>2, <1>9, <1>10 DEF new

(* What is close to a change.                                              *)
LEMMA NearFacts ==
  ASSUME NEW c \in Nat, NEW n \in Nat, c <= n, Equals(c, n), NEW l \in Nat
  PROVE  /\ Near(l, n) <=> Near(l, c)
         /\ c > 0 /\ OpOf(c) # "equal" /\ l > c => (Near(l, c) <=> l - c <= hunkContext)
         /\ OpOf(n + 1) # "equal" => (Near(l, n + 1) <=> Near(l, n) \/ Close(l, n + 1))
<1>0. hunkContext \in Nat
  BY ReportAssumption
<1>1. Near(l, n) <=> Near(l, c)
  <2>1. ASSUME NEW d \in 1..n, OpOf(d) # "equal" PROVE d \in 1..c
    <3>1. d \notin (c + 1)..n
      BY <2>1 DEF Equals
    <3> QED
      BY <3>1
  <2>2. \A d \in 1..c : d \in 1..n
    OBVIOUS
  <2> QED
    BY <2>1, <2>2 DEF Near
<1>2. ASSUME c > 0, OpOf(c) # "equal", l > c PROVE Near(l, c) <=> l - c <= hunkContext
  <2>1. ASSUME l - c <= hunkContext PROVE Near(l, c)
    <3>1. c \in 1..c /\ Close(l, c)
      BY <1>0, <1>2, <2>1 DEF Close
    <3> QED
      BY <1>2, <3>1 DEF Near
  <2>2. ASSUME Near(l, c) PROVE l - c <= hunkContext
    <3>1. PICK d \in 1..c : Close(l, d)
      BY <2>2 DEF Near
    <3> QED
      BY <1>0, <3>1 DEF Close
  <2> QED
    BY <2>1, <2>2
<1>3. ASSUME OpOf(n + 1) # "equal" PROVE Near(l, n + 1) <=> Near(l, n) \/ Close(l, n + 1)
  <2>1. \A d : d \in 1..(n + 1) <=> d \in 1..n \/ d = n + 1
    OBVIOUS
  <2> QED
    BY <1>3, <2>1 DEF Near
<1> QED
  BY <1>1, <1>2, <1>3

LEMMA GroupType ==
  ASSUME NEW st \in Groups, NEW k \in Nat
  PROVE  Group(st, k) \in Groups
<1>1. st.out \in Seq(Seq(Nat)) /\ st.cur \in Seq(Nat) /\ st.pending \in Seq(Nat) /\ <<>> \in Seq(Nat)
  BY EmptySeq DEF Groups
<1>2. Len(st.pending) \in Nat /\ hunkContext \in Nat
  BY <1>1, LenProperties, ReportAssumption
<1>3. ASSUME NEW p \in Nat, NEW q \in Int, p >= 1, q <= Len(st.pending)
      PROVE  SubSeq(st.pending, p, q) \in Seq(Nat)
  <2>1. \A i \in p..q : i \in 1..Len(st.pending)
    BY <1>2, <1>3
  <2>2. \A i \in p..q : st.pending[i] \in Nat
    BY <1>1, <2>1, ElementOfSeq
  <2>3. p \in Int
    OBVIOUS
  <2> QED
    BY <2>2, <2>3, SubSeqProperties
<1>4. Beginning(st.pending) \in Seq(Nat)
  <2>1. Minimum(Len(st.pending), hunkContext) \in Int /\ Minimum(Len(st.pending), hunkContext) <= Len(st.pending)
    BY <1>2 DEF Minimum
  <2> QED
    BY <1>3, <2>1 DEF Beginning
<1>5. Ending(st.pending) \in Seq(Nat)
  <2>1. Maximum(1, Len(st.pending) - hunkContext + 1) \in Nat /\ Maximum(1, Len(st.pending) - hunkContext + 1) >= 1
    BY <1>2 DEF Maximum
  <2> QED
    BY <1>2, <1>3, <2>1 DEF Ending
<1>6. Append(st.pending, k) \in Seq(Nat) /\ <<k>> \in Seq(Nat)
  BY <1>1, AppendProperties
<1>7. Append(st.out, st.cur \o Beginning(st.pending)) \in Seq(Seq(Nat))
  <2>1. st.cur \o Beginning(st.pending) \in Seq(Nat)
    BY <1>1, <1>4, ConcatProperties
  <2> QED
    BY <1>1, <2>1, AppendProperties
<1>8. ASSUME NEW s \in Seq(Nat), NEW t \in Seq(Nat) PROVE s \o t \o <<k>> \in Seq(Nat)
  <2>1. s \o t \in Seq(Nat)
    BY ConcatProperties
  <2> QED
    BY <1>6, <2>1, ConcatProperties
<1>9. CASE OpOf(k) = "equal"
  <2>1. Group(st, k) = [out |-> st.out, cur |-> st.cur, pending |-> Append(st.pending, k)]
    BY <1>9 DEF Group, Groups
  <2> QED
    BY <1>1, <1>6, <2>1 DEF Groups
<1>10. CASE OpOf(k) # "equal"
  <2> DEFINE split == st.cur # <<>> /\ Len(st.pending) > 2 * hunkContext
             lead == IF st.cur = <<>> \/ split THEN Ending(st.pending) ELSE st.pending
             before == IF split THEN <<>> ELSE st.cur
             new == IF split THEN Append(st.out, st.cur \o Beginning(st.pending)) ELSE st.out
  <2>1. Group(st, k) = [out |-> new, cur |-> before \o lead \o <<k>>, pending |-> <<>>]
    BY <1>10 DEF Group
  <2>2. lead \in Seq(Nat) /\ before \in Seq(Nat) /\ new \in Seq(Seq(Nat))
    BY <1>1, <1>5, <1>7
  <2> HIDE DEF lead, before, new
  <2>3. before \o lead \o <<k>> \in Seq(Nat)
    BY <1>8, <2>2
  <2> QED
    BY <1>1, <2>1, <2>2, <2>3 DEF Groups
<1> QED
  BY <1>9, <1>10

(* The open hunk with the context after it.                                *)
Closed(st) == Append(st.out, st.cur \o Beginning(st.pending))

LEMMA HunkCloses ==
  ASSUME NEW f \in Nat, NEW c \in Nat, NEW n \in Nat, NEW st, Opened(st, f, c, n),
         NEW g \in Nat, g > Minimum(n, c + hunkContext)
  PROVE  /\ Laid(Closed(st), g)
         /\ \A l \in 1..n : l \in Shown(Closed(st)) <=> Near(l, n)
         /\ \A l \in Shown(Closed(st)) : l \in 1..n
<1> DEFINE e == Minimum(n, c + hunkContext)
           h == st.cur \o Beginning(st.pending)
<1>0. hunkContext \in Nat
  BY ReportAssumption
<1>1. /\ f < c /\ c <= n /\ f <= c
      /\ Spans(st.cur, f, c) /\ Spans(st.pending, c, n)
      /\ Laid(st.out, f) /\ OpOf(c) # "equal" /\ Equals(c, n)
      /\ ShownUpTo(st.out, f, c)
  BY DEF Opened
<1>2. /\ e \in Nat /\ c <= e /\ e <= n /\ f < e /\ e < g
      /\ \A l \in Nat : l \in (c + 1)..n => (l <= e <=> l - c <= hunkContext)
  BY <1>0, <1>1 DEF Minimum
<1>3. Spans(Beginning(st.pending), c, e)
  BY <1>1, ContextSpans
<1> HIDE DEF e
<1>4. Spans(h, f, e)
  BY <1>1, <1>2, <1>3, SpansConcat
<1> HIDE DEF h
<1>5. /\ Laid(Append(st.out, h), g)
      /\ \A l : l \in Shown(Append(st.out, h)) <=> l \in Shown(st.out) \/ l \in (f + 1)..e
  BY <1>1, <1>2, <1>4, LaidAppend
<1>6. Closed(st) = Append(st.out, h)
  BY DEF Closed, h
<1>7. \A l \in Shown(st.out) : l \in Nat /\ l >= 1 /\ l < f
  BY <1>1, LaidFacts
<1>8. ASSUME NEW l \in 1..n PROVE (l \in Shown(st.out) \/ l \in (f + 1)..e) <=> Near(l, n)
  <2>1. l \in Nat /\ l >= 1
    OBVIOUS
  <2>2. /\ Near(l, n) <=> Near(l, c)
        /\ l > c => (Near(l, c) <=> l - c <= hunkContext)
    <3>1. c > 0
      BY <1>1
    <3> QED
      BY <1>1, <2>1, <3>1, NearFacts
  <2>3. CASE l <= c
    <3>1. (l \in Shown(st.out) \/ l > f) <=> Near(l, c)
      BY <1>1, <2>1, <2>3 DEF ShownUpTo
    <3>2. l > f <=> l \in (f + 1)..e
      BY <1>2, <2>1, <2>3
    <3> QED
      BY <2>2, <3>1, <3>2
  <2>4. CASE l > c
    <3>1. l \notin Shown(st.out)
      BY <1>1, <1>7, <2>4
    <3>2. l \in (f + 1)..e <=> l - c <= hunkContext
      BY <1>1, <1>2, <2>1, <2>4
    <3> QED
      BY <2>2, <2>4, <3>1, <3>2
  <2> QED
    BY <2>1, <2>3, <2>4
<1>9. ASSUME NEW l \in Shown(Closed(st)) PROVE l \in 1..n
  <2>1. l \in Shown(st.out) \/ l \in (f + 1)..e
    BY <1>5, <1>6
  <2>2. l \in Shown(st.out) => l \in 1..n
    BY <1>1, <1>7
  <2>3. l \in (f + 1)..e => l \in 1..n
    BY <1>2
  <2> QED
    BY <2>1, <2>2, <2>3
<1> QED
  BY <1>5, <1>6, <1>8, <1>9

LEMMA GroupEqual ==
  ASSUME NEW n \in Nat, NEW st, Grouped(st, n), NEW k, k = n + 1, OpOf(k) = "equal"
  PROVE  Grouped(Group(st, k), k)
<1> DEFINE new == [out |-> st.out, cur |-> st.cur, pending |-> Append(st.pending, k)]
<1>1. st \in Groups /\ k \in Nat
  BY DEF Grouped
<1>2. Group(st, k) = new
  BY <1>1 DEF Group, Groups
<1>3. new \in Groups
  BY <1>1, <1>2, GroupType
<1>4. ASSUME NEW c \in Nat, Equals(c, n) PROVE Equals(c, k)
  <2>1. \A d \in (c + 1)..k : d \in (c + 1)..n \/ d = k
    OBVIOUS
  <2> QED
    BY <1>4, <2>1 DEF Equals
<1>5. CASE Unopened(st, n)
  <2>1. Spans(Append(st.pending, k), 0, k)
    <3>1. Spans(st.pending, 0, n) /\ 0 \in Nat /\ 0 <= n
      BY <1>5 DEF Unopened
    <3> QED
      BY <3>1, SpansAppend
  <2>2. Unopened(new, k)
    BY <1>4, <1>5, <2>1 DEF Unopened
  <2> QED
    BY <1>2, <1>3, <2>2 DEF Grouped
<1>6. ASSUME NEW f \in Nat, NEW c \in Nat, Opened(st, f, c, n) PROVE Grouped(new, k)
  <2>1. Spans(Append(st.pending, k), c, k)
    <3>1. Spans(st.pending, c, n) /\ c <= n
      BY <1>6 DEF Opened
    <3> QED
      BY <3>1, SpansAppend
  <2>2. Opened(new, f, c, k)
    BY <1>4, <1>6, <2>1 DEF Opened
  <2> QED
    BY <1>3, <2>2 DEF Grouped
<1> QED
  BY <1>2, <1>5, <1>6 DEF Grouped

(* The first change opens a hunk with the context before it.               *)
LEMMA GroupFirst ==
  ASSUME NEW n \in Nat, NEW st, st \in Groups, Unopened(st, n), NEW k, k = n + 1, OpOf(k) # "equal"
  PROVE  Grouped(Group(st, k), k)
<1> DEFINE f == Maximum(0, n - hunkContext)
           lead == Ending(st.pending)
           new == [out |-> <<>>, cur |-> <<>> \o lead \o <<k>>, pending |-> <<>>]
<1>0. hunkContext \in Nat /\ k \in Nat
  BY ReportAssumption
<1>1. st.cur = <<>> /\ st.out = <<>> /\ Spans(st.pending, 0, n) /\ Equals(0, n)
  BY DEF Unopened
<1>2. Group(st, k) = new
  BY <1>1 DEF Group
<1>3. new \in Groups
  BY <1>0, <1>2, GroupType
<1>4. f \in Nat /\ f <= n /\ \A l \in 1..k : l > f <=> k - l <= hunkContext
  BY <1>0 DEF Maximum
<1>5. Spans(lead, f, n)
  <2>1. 0 \in Nat /\ 0 <= n
    OBVIOUS
  <2> QED
    BY <1>1, <2>1, ContextSpans
<1> HIDE DEF f, lead
<1>6. Spans(<<>> \o lead \o <<k>>, f, k)
  <2>1. Spans(<<>> \o lead, f, n)
    <3>1. Spans(<<>>, f, f) /\ f <= f
      BY <1>4, SpansNothing
    <3> QED
      BY <1>4, <1>5, <3>1, SpansConcat
  <2>2. Spans(<<k>>, n, k) /\ n <= k
    BY SpansOne
  <2> QED
    BY <1>0, <1>4, <2>1, <2>2, SpansConcat
<1>7. Laid(<<>>, f) /\ Shown(<<>>) = {}
  <2>1. <<>> \in Seq(Seq(Nat)) /\ Len(<<>>) = 0 /\ DOMAIN <<>> = {}
    BY EmptySeq
  <2> QED
    BY <2>1 DEF Laid, Shown
<1>8. ASSUME NEW l \in 1..k PROVE l > f <=> Near(l, k)
  <2>1. Near(l, k) <=> Near(l, n) \/ Close(l, k)
    <3>1. 0 \in Nat /\ 0 <= n /\ l \in Nat
      BY <1>0
    <3> QED
      BY <1>1, <3>1, NearFacts
  <2>2. ~Near(l, n)
    BY <1>1 DEF Near, Equals
  <2>3. Close(l, k) <=> k - l <= hunkContext
    BY <1>0 DEF Close
  <2> QED
    BY <1>4, <2>1, <2>2, <2>3
<1>9. Equals(k, k)
  BY <1>0 DEF Equals
<1>10. f < k /\ k <= k
  BY <1>0, <1>4
<1>11. Spans(<<>>, k, k)
  BY <1>0, SpansNothing
<1>12. ShownUpTo(<<>>, f, k)
  BY <1>7, <1>8 DEF ShownUpTo
<1>13. Opened(new, f, k, k)
  BY <1>6, <1>7, <1>9, <1>10, <1>11, <1>12 DEF Opened
<1> QED
  BY <1>0, <1>2, <1>3, <1>4, <1>13 DEF Grouped

(* An equal run too long for the context of both its ends splits the hunk. *)
LEMMA GroupSplit ==
  ASSUME NEW n \in Nat, NEW st, st \in Groups, NEW k, k = n + 1, OpOf(k) # "equal",
         NEW g \in Nat, NEW c \in Nat, Opened(st, g, c, n), Len(st.pending) > 2 * hunkContext
  PROVE  Grouped(Group(st, k), k)
<1> DEFINE f == Maximum(c, n - hunkContext)
           lead == Ending(st.pending)
           new == [out |-> Closed(st), cur |-> <<>> \o lead \o <<k>>, pending |-> <<>>]
<1>0. hunkContext \in Nat /\ k \in Nat
  BY ReportAssumption
<1>1. g < c /\ c <= n /\ g <= c /\ Spans(st.cur, g, c) /\ Spans(st.pending, c, n) /\ Equals(c, n)
  BY DEF Opened
<1>2. st.cur # <<>> /\ Len(st.pending) = n - c
  <2>1. st.cur = <<>> <=> g = c
    BY <1>1, SpansFacts
  <2>2. Len(st.pending) = n - c
    BY <1>1 DEF Spans
  <2> QED
    BY <1>1, <2>1, <2>2
<1>3. Group(st, k) = new
  BY <1>2 DEF Group, Closed
<1>4. new \in Groups
  BY <1>0, <1>3, GroupType
<1>5. /\ f \in Nat /\ c <= f /\ f <= n /\ f > Minimum(n, c + hunkContext)
      /\ \A l \in 1..k : l > f <=> k - l <= hunkContext
  BY <1>0, <1>1, <1>2 DEF Maximum, Minimum
<1>6. Spans(lead, f, n)
  BY <1>1, ContextSpans
<1> HIDE DEF f, lead
<1>7. Spans(<<>> \o lead \o <<k>>, f, k)
  <2>1. Spans(<<>> \o lead, f, n)
    <3>1. Spans(<<>>, f, f) /\ f <= f
      BY <1>5, SpansNothing
    <3> QED
      BY <1>5, <1>6, <3>1, SpansConcat
  <2>2. Spans(<<k>>, n, k) /\ n <= k
    BY SpansOne
  <2> QED
    BY <1>0, <1>5, <2>1, <2>2, SpansConcat
<1>8. /\ Laid(Closed(st), f)
      /\ \A l \in 1..n : l \in Shown(Closed(st)) <=> Near(l, n)
  BY <1>5, HunkCloses
<1>9. ASSUME NEW l \in 1..k PROVE (l \in Shown(Closed(st)) \/ l > f) <=> Near(l, k)
  <2>1. Near(l, k) <=> Near(l, n) \/ Close(l, k)
    <3>1. l \in Nat
      BY <1>0
    <3> QED
      BY <1>1, <3>1, NearFacts
  <2>2. Close(l, k) <=> k - l <= hunkContext
    BY <1>0 DEF Close
  <2>3. CASE l = k
    BY <1>0, <1>5, <2>1, <2>2, <2>3
  <2>4. CASE l # k
    <3>1. l \in 1..n
      BY <2>4
    <3> QED
      BY <1>5, <1>8, <2>1, <2>2, <3>1
  <2> QED
    BY <2>3, <2>4
<1>10. Equals(k, k)
  BY <1>0 DEF Equals
<1>11. f < k /\ k <= k
  BY <1>0, <1>5
<1>12. Spans(<<>>, k, k)
  BY <1>0, SpansNothing
<1>13. ShownUpTo(Closed(st), f, k)
  BY <1>9 DEF ShownUpTo
<1>14. Opened(new, f, k, k)
  BY <1>7, <1>8, <1>10, <1>11, <1>12, <1>13 DEF Opened
<1> QED
  BY <1>0, <1>3, <1>4, <1>5, <1>14 DEF Grouped

(* A shorter one is shown in full.                                         *)
LEMMA GroupJoin ==
  ASSUME NEW n \in Nat, NEW st, st \in Groups, NEW k, k = n + 1, OpOf(k) # "equal",
         NEW f \in Nat, NEW c \in Nat, Opened(st, f, c, n), ~(Len(st.pending) > 2 * hunkContext)
  PROVE  Grouped(Group(st, k), k)
<1> DEFINE new == [out |-> st.out, cur |-> st.cur \o st.pending \o <<k>>, pending |-> <<>>]
<1>0. hunkContext \in Nat /\ k \in Nat
  BY ReportAssumption
<1>1. /\ f < c /\ c <= n /\ f <= c /\ f <= n /\ Spans(st.cur, f, c) /\ Spans(st.pending, c, n) /\ Equals(c, n)
      /\ Laid(st.out, f) /\ OpOf(c) # "equal" /\ ShownUpTo(st.out, f, c)
  BY DEF Opened
<1>2. st.cur # <<>> /\ Len(st.pending) = n - c
  <2>1. st.cur = <<>> <=> f = c
    BY <1>1, SpansFacts
  <2>2. Len(st.pending) = n - c
    BY <1>1 DEF Spans
  <2> QED
    BY <1>1, <2>1, <2>2
<1>3. Group(st, k) = new
  BY <1>2 DEF Group
<1>4. new \in Groups
  BY <1>0, <1>3, GroupType
<1>5. Spans(st.cur \o st.pending \o <<k>>, f, k)
  <2>1. Spans(st.cur \o st.pending, f, n)
    BY <1>1, SpansConcat
  <2>2. Spans(<<k>>, n, k) /\ n <= k
    BY SpansOne
  <2> QED
    BY <1>0, <1>1, <2>1, <2>2, SpansConcat
<1>6. ASSUME NEW l \in 1..k PROVE (l \in Shown(st.out) \/ l > f) <=> Near(l, k)
  <2>0. l \in Nat /\ l >= 1 /\ l <= k
    BY <1>0
  <2>1. /\ Near(l, k) <=> Near(l, n) \/ Close(l, k)
        /\ Near(l, n) <=> Near(l, c)
        /\ l > c => (Near(l, c) <=> l - c <= hunkContext)
    <3>1. c > 0
      BY <1>1
    <3> QED
      BY <1>1, <2>0, <3>1, NearFacts
  <2>2. Close(l, k) <=> k - l <= hunkContext
    BY <1>0, <2>0 DEF Close
  <2>3. CASE l <= c
    <3>1. (l \in Shown(st.out) \/ l > f) <=> Near(l, c)
      BY <1>1, <2>0, <2>3 DEF ShownUpTo
    <3>2. k - l <= hunkContext => Near(l, c)
      <4>1. ASSUME k - l <= hunkContext PROVE c \in 1..c /\ Close(l, c)
        BY <1>0, <1>1, <2>0, <2>3, <4>1 DEF Close
      <4> QED
        BY <1>1, <4>1 DEF Near
    <3> QED
      BY <2>1, <2>2, <3>1, <3>2
  <2>4. CASE l > c
    <3>1. l - c <= hunkContext \/ k - l <= hunkContext
      BY <1>0, <1>1, <1>2, <2>0, <2>4
    <3>2. l > f
      BY <1>1, <2>0, <2>4
    <3> QED
      BY <2>1, <2>2, <2>4, <3>1, <3>2
  <2> QED
    BY <2>0, <2>3, <2>4
<1>7. Equals(k, k)
  BY <1>0 DEF Equals
<1>8. f < k /\ k <= k
  BY <1>0, <1>1
<1>9. Spans(<<>>, k, k)
  BY <1>0, SpansNothing
<1>10. ShownUpTo(st.out, f, k)
  BY <1>6 DEF ShownUpTo
<1>11. Opened(new, f, k, k)
  BY <1>1, <1>5, <1>7, <1>8, <1>9, <1>10 DEF Opened
<1> QED
  BY <1>0, <1>3, <1>4, <1>11 DEF Grouped

LEMMA GroupKeeps ==
  ASSUME NEW n \in Nat, NEW st, Grouped(st, n), NEW k, k = n + 1
  PROVE  Grouped(Group(st, k), k)
<1>1. st \in Groups
  BY DEF Grouped
<1>2. CASE OpOf(k) = "equal"
  BY <1>2, GroupEqual
<1>3. CASE OpOf(k) # "equal"
  <2>1. CASE Unopened(st, n)
    BY <1>1, <1>3, <2>1, GroupFirst
  <2>2. ASSUME NEW f \in Nat, NEW c \in Nat, Opened(st, f, c, n)
        PROVE  Grouped(Group(st, k), k)
    BY <1>1, <1>3, <2>2, GroupSplit, GroupJoin
  <2> QED
    BY <2>1, <2>2 DEF Grouped
<1> QED
  BY <1>2, <1>3

-----------------------------------------------------------------------------
(* What a loop computes in n rounds: the states it passes exist.           *)
Within(F, n, S) == \A k \in 1..n : \A x \in S : F[k][x] \in S
Passes(f, start, n, F) == f[0] = start /\ \A k \in 1..n : f[k] = F[k][f[k - 1]]

LEMMA Recursion ==
  ASSUME NEW S, NEW start \in S, NEW n \in Nat, NEW F, Within(F, n, S)
  PROVE  \E f \in [0..n -> S] : Passes(f, start, n, F)
<1> USE DEF Within, Passes
<1> DEFINE Runs(m) == {f \in [0..m -> S] : f[0] = start /\ \A k \in 1..m : f[k] = F[k][f[k - 1]]}
           Bad == {m \in 0..n : Runs(m) = {}}
<1>1. Bad = {}
  <2> SUFFICES ASSUME Bad # {} PROVE FALSE
    OBVIOUS
  <2>1. PICK m \in Bad : \A q \in Bad : m <= q
    <3>1. Bad \in SUBSET Nat
      OBVIOUS
    <3> HIDE DEF Bad
    <3> QED
      BY <3>1, LeastElement
  <2>2. m \in 0..n /\ m \in Nat /\ Runs(m) = {}
    OBVIOUS
  <2>3. CASE m = 0
    <3> DEFINE f == [k \in 0..0 |-> start]
    <3>1. f \in [0..0 -> S] /\ f[0] = start /\ 1..0 = {}
      OBVIOUS
    <3> HIDE DEF f
    <3>2. f \in Runs(0)
      BY <3>1
    <3> QED
      BY <2>2, <2>3, <3>2
  <2>4. CASE m # 0
    <3> DEFINE q == m - 1
    <3>1. q \in 0..n /\ q \in Nat /\ m = q + 1 /\ ~(m <= q)
      BY <2>2, <2>4
    <3> HIDE DEF q
    <3>2. Runs(q) # {}
      BY <2>1, <3>1
    <3>3. PICK f \in [0..q -> S] : f[0] = start /\ \A k \in 1..q : f[k] = F[k][f[k - 1]]
      BY <3>2
    <3> DEFINE g == [k \in 0..m |-> IF k = m THEN F[m][f[q]] ELSE f[k]]
    <3>4. m \in 1..n /\ f[q] \in S
      BY <2>2, <3>1
    <3>5. F[m][f[q]] \in S
      BY <3>4
    <3>6. g \in [0..m -> S]
      <4> SUFFICES ASSUME NEW k \in 0..m PROVE (IF k = m THEN F[m][f[q]] ELSE f[k]) \in S
        OBVIOUS
      <4>1. k # m => k \in 0..q
        BY <3>1
      <4> QED
        BY <3>5, <4>1
    <3>7. g[0] = start
      BY <2>2, <2>4, <3>3
    <3>8. ASSUME NEW k \in 1..m PROVE g[k] = F[k][g[k - 1]]
      <4>1. k \in 0..m /\ k - 1 \in 0..m /\ k - 1 # m /\ k - 1 \in 0..q
        BY <3>1
      <4>2. g[k - 1] = f[k - 1]
        BY <4>1
      <4>3. CASE k = m
        <5>1. g[k] = F[m][f[q]] /\ k - 1 = q
          BY <3>1, <4>1, <4>3
        <5> QED
          BY <4>2, <4>3, <5>1
      <4>4. CASE k # m
        <5>1. g[k] = f[k] /\ k \in 1..q
          BY <3>1, <4>1, <4>4
        <5> QED
          BY <3>3, <4>2, <5>1
      <4> QED
        BY <4>3, <4>4
    <3> HIDE DEF g
    <3>9. g \in Runs(m)
      BY <3>6, <3>7, <3>8
    <3> QED
      BY <2>2, <3>9
  <2> QED
    BY <2>3, <2>4
<1>2. Runs(n) # {}
  <2>1. n \in 0..n
    OBVIOUS
  <2> QED
    BY <1>1, <2>1
<1> QED
  BY <1>2


LEMMA EmptyGrouped ==
  /\ [out |-> <<>>, cur |-> <<>>, pending |-> <<>>] \in Groups
  /\ Grouped([out |-> <<>>, cur |-> <<>>, pending |-> <<>>], 0)
<1> DEFINE start == [out |-> <<>>, cur |-> <<>>, pending |-> <<>>]
<1>1. start \in Groups
  BY EmptySeq DEF Groups
<1>2. Spans(<<>>, 0, 0)
  <2>1. 0 \in Nat
    OBVIOUS
  <2> QED
    BY <2>1, SpansNothing
<1>3. Equals(0, 0)
  BY DEF Equals
<1>4. Unopened(start, 0)
  BY <1>2, <1>3 DEF Unopened
<1> QED
  BY <1>1, <1>4 DEF Grouped

(* What hunks has put together at the end of its loop.                     *)
LEMMA LoopGroups ==
  ASSUME lines \in Seq(Line)
  PROVE  \E h : Grouped(h, Len(lines)) /\ Hunks = IF h.cur = <<>> THEN h.out ELSE Closed(h)
<1> DEFINE size == Len(lines)
           D == 0..size
           start == [out |-> <<>>, cur |-> <<>>, pending |-> <<>>]
           Body(f, n) == IF n = 0 THEN start ELSE Group(f[n - 1], n)
           t == CHOOSE f : f = [n \in D |-> Body(f, n)]
           F == [n \in 1..size |-> [x \in Groups |-> Group(x, n)]]
<1>1. Hunks = IF t[size].cur = <<>> THEN t[size].out ELSE Closed(t[size])
  BY DEF Hunks, Closed
<1>2. size \in Nat
  BY LenProperties
<1>3. start \in Groups /\ Grouped(start, 0)
  BY EmptyGrouped
<1> HIDE DEF size
<1>4. ASSUME NEW n \in 1..size, NEW x \in Groups PROVE F[n][x] = Group(x, n) /\ F[n][x] \in Groups
  <2>1. n \in Nat
    BY <1>2
  <2> QED
    BY <2>1, GroupType
<1> HIDE DEF F, start
<1>5. PICK f \in [D -> Groups] : f[0] = start /\ \A n \in 1..size : f[n] = F[n][f[n - 1]]
  <2>1. Within(F, size, Groups)
    BY <1>4 DEF Within
  <2>2. \E f \in [0..size -> Groups] : Passes(f, start, size, F)
    BY <1>2, <1>3, <2>1, Recursion
  <2> QED
    BY <2>2 DEF Passes
<1>6. ASSUME NEW n \in D PROVE f[n] = Body(f, n)
  <2>1. CASE n = 0
    BY <1>5, <2>1
  <2>2. CASE n # 0
    <3>1. n \in 1..size /\ n - 1 \in D
      BY <1>2, <2>2
    <3>2. f[n - 1] \in Groups
      BY <3>1
    <3> QED
      BY <1>4, <1>5, <2>2, <3>1, <3>2
  <2> QED
    BY <2>1, <2>2
<1>7. f = [n \in D |-> Body(f, n)]
  <2>1. f = [n \in D |-> f[n]]
    OBVIOUS
  <2> HIDE DEF Body, D
  <2> QED
    BY <1>6, <2>1
<1>8. t = [n \in D |-> Body(t, n)]
  <2> HIDE DEF Body, D
  <2> QED
    BY <1>7
<1> HIDE DEF t
<1>9. ASSUME NEW n \in D PROVE t[n] = Body(t, n)
  <2> HIDE DEF Body, D
  <2> QED
    BY <1>8
<1> DEFINE Bad == {n \in D : ~Grouped(t[n], n)}
<1>10. Bad = {}
  <2> SUFFICES ASSUME Bad # {} PROVE FALSE
    OBVIOUS
  <2>1. Bad \in SUBSET Nat
    BY <1>2
  <2>2. PICK n \in Bad : \A q \in Bad : n <= q
    <3> HIDE DEF Bad
    <3> QED
      BY <2>1, LeastElement
  <2>3. n \in D /\ n \in Nat /\ ~Grouped(t[n], n) /\ n \in Bad
    BY <2>1
  <2>4. CASE n = 0
    BY <1>3, <1>9, <2>3, <2>4
  <2>5. CASE n # 0
    <3> DEFINE q == n - 1
    <3>1. q \in D /\ ~(n <= q) /\ q \in Nat /\ n = q + 1
      BY <1>2, <2>3, <2>5
    <3>2. Grouped(t[q], q)
      BY <2>2, <3>1
    <3>3. t[n] = Group(t[q], n)
      BY <1>9, <2>3, <2>5
    <3> HIDE DEF q
    <3>4. Grouped(Group(t[q], n), n)
      BY <3>1, <3>2, GroupKeeps
    <3> QED
      BY <2>3, <3>3, <3>4
  <2> QED
    BY <2>4, <2>5
<1>11. Grouped(t[size], size)
  <2>1. size \in D
    BY <1>2
  <2> QED
    BY <1>10, <2>1
<1> QED
  BY <1>1, <1>11 DEF size

(* The hunks lie apart, and show what is close to a change.                *)
LEMMA HunksAreLaid ==
  ASSUME lines \in Seq(Line)
  PROVE  /\ \E g \in Nat : Laid(Hunks, g)
         /\ Shown(Hunks) = NearChange
<1> DEFINE n == Len(lines)
<1>1. n \in Nat /\ DOMAIN lines = 1..n /\ hunkContext \in Nat
  BY LenProperties, ReportAssumption
<1>2. PICK h : Grouped(h, n) /\ Hunks = IF h.cur = <<>> THEN h.out ELSE Closed(h)
  BY LoopGroups
<1>3. \A l : l \in NearChange <=> l \in 1..n /\ Near(l, n)
  BY <1>1 DEF NearChange, Near, Close
<1> HIDE DEF n
<1>4. CASE Unopened(h, n)
  <2>1. Hunks = <<>>
    BY <1>2, <1>4 DEF Unopened
  <2>2. Laid(<<>>, 0) /\ Shown(<<>>) = {}
    <3>1. <<>> \in Seq(Seq(Nat)) /\ Len(<<>>) = 0 /\ DOMAIN <<>> = {}
      BY EmptySeq
    <3> QED
      BY <3>1 DEF Laid, Shown
  <2>3. ASSUME NEW l \in 1..n PROVE ~Near(l, n)
    BY <1>4 DEF Near, Unopened, Equals
  <2>4. NearChange = {}
    BY <1>3, <2>3
  <2>5. 0 \in Nat
    OBVIOUS
  <2> QED
    BY <2>1, <2>2, <2>4, <2>5
<1>5. ASSUME NEW f \in Nat, NEW c \in Nat, Opened(h, f, c, n)
      PROVE  (\E g \in Nat : Laid(Hunks, g)) /\ Shown(Hunks) = NearChange
  <2>1. h.cur # <<>>
    <3>1. f < c /\ f <= c /\ Spans(h.cur, f, c)
      BY <1>5 DEF Opened
    <3> QED
      BY <3>1, SpansFacts
  <2>2. Hunks = Closed(h)
    BY <1>2, <2>1
  <2>3. n + 1 \in Nat /\ n + 1 > Minimum(n, c + hunkContext)
    BY <1>1 DEF Minimum
  <2>4. /\ Laid(Closed(h), n + 1)
        /\ \A l \in 1..n : l \in Shown(Closed(h)) <=> Near(l, n)
        /\ \A l \in Shown(Closed(h)) : l \in 1..n
    BY <1>1, <1>5, <2>3, HunkCloses
  <2>5. Shown(Closed(h)) = NearChange
    BY <1>3, <2>4
  <2> QED
    BY <2>2, <2>3, <2>4, <2>5
<1> QED
  BY <1>2, <1>4, <1>5 DEF Grouped

LEMMA RunAscends ==
  ASSUME NEW f \in Nat, NEW s, RunBefore(s, f)
  PROVE  /\ Len(s) \in Nat \ {0} /\ DOMAIN s = 1..Len(s)
         /\ \A m \in 1..Len(s) : s[m] \in Nat
         /\ \A p \in 1..Len(s), q \in 1..Len(s) : p <= q <=> s[p] <= s[q]
<1>1. PICK i \in Nat : \E e \in Nat : i < e /\ e < f /\ Spans(s, i, e)
  BY DEF RunBefore
<1>2. PICK e \in Nat : i < e /\ e < f /\ Spans(s, i, e)
  BY <1>1
<1>3. /\ Len(s) = e - i /\ DOMAIN s = 1..Len(s)
      /\ \A m \in 1..Len(s) : s[m] = i + m
  <2>1. i <= e
    BY <1>2
  <2> QED
    BY <1>2, <2>1, SpansFacts
<1>4. Len(s) \in Nat \ {0}
  BY <1>2, <1>3
<1> QED
  BY <1>3, <1>4

LEMMA HunkFacts ==
  ASSUME lines \in Seq(Line)
  PROVE  /\ DOMAIN Hunks = 1..Len(Hunks) /\ Len(Hunks) \in Nat
         /\ \A n \in 1..Len(Hunks) : \E g \in Nat : RunBefore(Hunks[n], g)
         /\ \A m, n \in 1..Len(Hunks) : m < n => Apart(Hunks[m], Hunks[n])
         /\ \A n \in 1..Len(Hunks) : Range(Hunks[n]) \subseteq NearChange
<1>1. PICK g \in Nat : Laid(Hunks, g)
  BY HunksAreLaid
<1>2. Hunks \in Seq(Seq(Nat)) /\ DOMAIN Hunks = 1..Len(Hunks) /\ Len(Hunks) \in Nat
  BY <1>1, LenProperties DEF Laid
<1>3. Shown(Hunks) = NearChange
  BY HunksAreLaid
<1>4. \A n \in 1..Len(Hunks) : Range(Hunks[n]) \subseteq NearChange
  BY <1>2, <1>3 DEF Shown
<1>5. \A n \in 1..Len(Hunks) : RunBefore(Hunks[n], g)
  BY <1>1 DEF Laid
<1>6. \A m, n \in 1..Len(Hunks) : m < n => Apart(Hunks[m], Hunks[n])
  BY <1>1 DEF Laid
<1> QED
  BY <1>2, <1>4, <1>5, <1>6

LEMMA HunksShow ==
  ASSUME lines \in Seq(Line)
  PROVE  /\ UNION {Range(Hunks[n]) : n \in DOMAIN Hunks} = NearChange
         /\ \A n \in DOMAIN Hunks :
              LET h == Hunks[n]
              IN  /\ h # <<>>
                  /\ \A k \in 1..(Len(h) - 1) : h[k + 1] = h[k] + 1
                  /\ n < Len(Hunks) => h[Len(h)] + 1 < Hunks[n + 1][1]
<1>1. UNION {Range(Hunks[n]) : n \in DOMAIN Hunks} = NearChange
  BY HunksAreLaid DEF Shown
<1>2. /\ DOMAIN Hunks = 1..Len(Hunks) /\ Len(Hunks) \in Nat
      /\ \A n \in 1..Len(Hunks) : \E g \in Nat : RunBefore(Hunks[n], g)
      /\ \A m, n \in 1..Len(Hunks) : m < n => Apart(Hunks[m], Hunks[n])
  BY HunkFacts
<1>3. ASSUME NEW n \in 1..Len(Hunks)
      PROVE  /\ Hunks[n] # <<>>
             /\ \A k \in 1..(Len(Hunks[n]) - 1) : Hunks[n][k + 1] = Hunks[n][k] + 1
             /\ Hunks[n][1] \in Range(Hunks[n]) /\ Hunks[n][Len(Hunks[n])] \in Range(Hunks[n])
  <2>1. PICK g \in Nat : RunBefore(Hunks[n], g)
    BY <1>2
  <2> DEFINE h == Hunks[n]
  <2> HIDE DEF h
  <2>2. RunBefore(h, g)
    BY <2>1 DEF h
  <2>3. h # <<>> /\ \A k \in 1..(Len(h) - 1) : h[k + 1] = h[k] + 1
    BY <2>2, RunBeforeFacts
  <2>4. Len(h) \in Nat \ {0} /\ DOMAIN h = 1..Len(h)
    BY <2>2, RunAscends
  <2>5. h[1] \in Range(h) /\ h[Len(h)] \in Range(h)
    BY <2>4 DEF Range
  <2> QED
    BY <2>3, <2>5 DEF h
<1>4. ASSUME NEW n \in 1..Len(Hunks), n < Len(Hunks)
      PROVE  Hunks[n][Len(Hunks[n])] + 1 < Hunks[n + 1][1]
  <2>1. n + 1 \in 1..Len(Hunks) /\ n < n + 1
    BY <1>2, <1>4
  <2>2. Apart(Hunks[n], Hunks[n + 1])
    BY <1>2, <2>1
  <2> QED
    BY <1>3, <2>1, <2>2 DEF Apart
<1> QED
  BY <1>1, <1>2, <1>3, <1>4

-----------------------------------------------------------------------------
(* Headers.  The lines of a side have addresses that ascend.               *)
Mounts(other, addr) ==
  /\ \A k \in DOMAIN lines : OpOf(k) # other => addr[k] \in Nat
  /\ \A j, k \in DOMAIN lines : j < k /\ OpOf(j) # other /\ OpOf(k) # other => addr[j] < addr[k]

Header(h, other, addr) == IF Own(h, other) = {} THEN 0 ELSE addr[FirstOwn(h, other)]

LEMMA FirstOwnFacts ==
  ASSUME NEW f \in Nat, NEW h, RunBefore(h, f), NEW other
  PROVE  /\ Own(h, other) = {} <=> Sided(h, other) = {}
         /\ Own(h, other) # {} => /\ FirstOwn(h, other) \in Sided(h, other)
                                  /\ \A k \in Sided(h, other) : FirstOwn(h, other) <= k
<1> DEFINE O == Own(h, other)
<1>1. /\ Len(h) \in Nat \ {0} /\ DOMAIN h = 1..Len(h)
      /\ \A m \in 1..Len(h) : h[m] \in Nat
      /\ \A p \in 1..Len(h), q \in 1..Len(h) : p <= q <=> h[p] <= h[q]
  BY RunAscends
<1>2. O \in SUBSET Nat /\ \A m : m \in O <=> m \in 1..Len(h) /\ OpOf(h[m]) # other
  BY <1>1 DEF Own
<1>3. \A k : k \in Sided(h, other) <=> \E m \in O : k = h[m]
  BY <1>1, <1>2 DEF Sided, Range
<1>4. FirstOwn(h, other) = h[Min(O)]
  BY DEF FirstOwn
<1> HIDE DEF O
<1>5. ASSUME O # {}
      PROVE  FirstOwn(h, other) \in Sided(h, other) /\ \A k \in Sided(h, other) : FirstOwn(h, other) <= k
  <2>1. \E m \in O : \A q \in O : m <= q
    BY <1>2, <1>5, LeastElement
  <2>2. Min(O) \in O /\ \A q \in O : Min(O) <= q
    BY <2>1 DEF Min
  <2>3. ASSUME NEW q \in O PROVE h[Min(O)] <= h[q]
    BY <1>1, <1>2, <2>2
  <2> QED
    BY <1>3, <1>4, <2>2, <2>3
<1>6. O = {} <=> Sided(h, other) = {}
  BY <1>3
<1> QED
  BY <1>5, <1>6 DEF O

(* Two hunks have an equal line between them that is not shown, and the    *)
(* second one begins with one.                                             *)
LEMMA BetweenHunks ==
  ASSUME lines \in Seq(Line), NEW n \in 1..Len(Hunks), NEW p \in 1..Len(Hunks), p < n
  PROVE  \E x, e : /\ x \in Range(Hunks[n]) /\ e \in DOMAIN lines
                   /\ x = e + 1 /\ OpOf(x) = "equal" /\ OpOf(e) = "equal"
                   /\ \A l \in Range(Hunks[p]) : l < e
                   /\ \A l \in Range(Hunks[n]) : e < l
<1> DEFINE x == Hunks[n][1]
           e == x - 1
           size == Len(lines)
<1>0. size \in Nat /\ DOMAIN lines = 1..size /\ hunkContext \in Nat \ {0}
  BY LenProperties, ReportAssumption
<1>1. /\ DOMAIN Hunks = 1..Len(Hunks) /\ Len(Hunks) \in Nat
      /\ \A m \in 1..Len(Hunks) : \E g \in Nat : RunBefore(Hunks[m], g)
      /\ \A l, m \in 1..Len(Hunks) : l < m => Apart(Hunks[l], Hunks[m])
      /\ \A m \in 1..Len(Hunks) : Range(Hunks[m]) \subseteq NearChange
  BY HunkFacts
<1>2. ASSUME NEW m \in 1..Len(Hunks)
      PROVE  /\ Hunks[m][1] \in Range(Hunks[m])
             /\ \A l \in Range(Hunks[m]) : l \in Nat /\ l >= 1 /\ Hunks[m][1] <= l
  <2>1. PICK g \in Nat : RunBefore(Hunks[m], g)
    BY <1>1
  <2> DEFINE h == Hunks[m]
  <2> HIDE DEF h
  <2>2. RunBefore(h, g)
    BY <2>1 DEF h
  <2>3. /\ Len(h) \in Nat \ {0} /\ DOMAIN h = 1..Len(h)
        /\ \A q \in 1..Len(h), r \in 1..Len(h) : q <= r <=> h[q] <= h[r]
    BY <2>2, RunAscends
  <2>4. h[1] \in Range(h) /\ \A l \in Range(h) : h[1] <= l
    <3>1. 1 \in 1..Len(h) /\ \A r \in 1..Len(h) : 1 <= r
      BY <2>3
    <3> QED
      BY <2>3, <3>1 DEF Range
  <2>5. \A l \in Range(h) : l \in Nat /\ l >= 1
    BY <2>2, RunBeforeFacts
  <2> QED
    BY <2>4, <2>5 DEF h
<1> HIDE DEF x, size
<1>3. x \in Range(Hunks[n]) /\ x \in Nat /\ x >= 1 /\ \A l \in Range(Hunks[n]) : l \in Nat /\ x <= l
  BY <1>2 DEF x
<1>4. \A l \in Range(Hunks[p]) : l \in Nat /\ l >= 1 /\ l + 1 < x
  BY <1>1, <1>2, <1>3 DEF Apart
<1>5. x \in 1..size
  BY <1>0, <1>1, <1>3 DEF NearChange
<1>6. e \in 1..size /\ x = e + 1
  BY <1>0, <1>2, <1>3, <1>4, <1>5
<1> HIDE DEF e
<1>7. e \notin NearChange
  <2>1. ASSUME e \in NearChange PROVE FALSE
    <3>1. PICK y \in 1..Len(Hunks) : e \in Range(Hunks[y])
      <4>1. e \in UNION {Range(Hunks[m]) : m \in DOMAIN Hunks}
        BY <2>1, HunksShow
      <4> QED
        BY <1>1, <4>1
    <3>2. CASE y = n
      <4>1. x <= e
        BY <1>3, <3>1, <3>2
      <4> QED
        BY <1>3, <1>6, <4>1
    <3>3. CASE y < n
      <4>1. e + 1 < x
        BY <1>1, <1>3, <3>1, <3>3 DEF Apart
      <4> QED
        BY <1>3, <1>6, <4>1
    <3>4. CASE n < y
      <4>1. x + 1 < e
        BY <1>1, <1>3, <3>1, <3>4 DEF Apart
      <4> QED
        BY <1>3, <1>6, <4>1
    <3>5. y = n \/ y < n \/ n < y
      BY <1>1
    <3> QED
      BY <3>2, <3>3, <3>4, <3>5
  <2> QED
    BY <2>1
<1>8. OpOf(e) = "equal"
  <2>1. e - e <= hunkContext
    BY <1>0, <1>6
  <2> QED
    BY <1>0, <1>6, <1>7, <2>1 DEF NearChange
<1>9. OpOf(x) = "equal"
  <2>1. e - x <= hunkContext /\ x - e <= hunkContext
    BY <1>0, <1>3, <1>6
  <2> QED
    BY <1>0, <1>5, <1>6, <1>7, <2>1 DEF NearChange
<1>10. \A l \in Range(Hunks[p]) : l < e
  BY <1>3, <1>4, <1>6
<1>11. \A l \in Range(Hunks[n]) : e < l
  BY <1>3, <1>6
<1>12. e \in DOMAIN lines
  BY <1>0, <1>6
<1> QED
  BY <1>3, <1>6, <1>8, <1>9, <1>10, <1>11, <1>12

LEMMA HeaderFits ==
  ASSUME lines \in Seq(Line), NEW other, other # "equal", NEW addr, Mounts(other, addr),
         NEW n \in 1..Len(Hunks)
  PROVE  /\ Sided(Hunks[n], other) # {} =>
              /\ \A k \in Sided(Hunks[n], other) : Header(Hunks[n], other, addr) <= addr[k]
              /\ \E k \in Sided(Hunks[n], other) : Header(Hunks[n], other, addr) = addr[k]
         /\ n > 1 => Header(Hunks[n - 1], other, addr) < Header(Hunks[n], other, addr)
<1>1. /\ \A m \in 1..Len(Hunks) : \E g \in Nat : RunBefore(Hunks[m], g)
      /\ \A m \in 1..Len(Hunks) : Range(Hunks[m]) \subseteq DOMAIN lines
      /\ Len(Hunks) \in Nat
  BY HunkFacts DEF NearChange
<1>2. ASSUME NEW m \in 1..Len(Hunks)
      PROVE  /\ Own(Hunks[m], other) = {} <=> Sided(Hunks[m], other) = {}
             /\ Own(Hunks[m], other) # {} =>
                  /\ FirstOwn(Hunks[m], other) \in Sided(Hunks[m], other)
                  /\ \A k \in Sided(Hunks[m], other) : FirstOwn(Hunks[m], other) <= k
             /\ \A k \in Sided(Hunks[m], other) : k \in DOMAIN lines /\ k \in Range(Hunks[m]) /\ OpOf(k) # other
  <2>1. \E g \in Nat : RunBefore(Hunks[m], g)
    BY <1>1
  <2>2. \A k \in Sided(Hunks[m], other) : k \in DOMAIN lines /\ k \in Range(Hunks[m]) /\ OpOf(k) # other
    BY <1>1 DEF Sided
  <2> QED
    BY <2>1, <2>2, FirstOwnFacts
<1>3. DOMAIN lines = 1..Len(lines) /\ Len(lines) \in Nat
  BY LenProperties
<1>4. ASSUME Sided(Hunks[n], other) # {}
      PROVE  /\ \A k \in Sided(Hunks[n], other) : Header(Hunks[n], other, addr) <= addr[k]
             /\ \E k \in Sided(Hunks[n], other) : Header(Hunks[n], other, addr) = addr[k]
  <2> DEFINE S == Sided(Hunks[n], other)
             k0 == FirstOwn(Hunks[n], other)
  <2>1. /\ k0 \in S /\ \A k \in S : k0 <= k
        /\ \A k \in S : k \in DOMAIN lines /\ OpOf(k) # other
        /\ Header(Hunks[n], other, addr) = addr[k0]
    BY <1>2, <1>4 DEF Header
  <2> HIDE DEF S, k0
  <2>2. ASSUME NEW k \in S PROVE addr[k0] <= addr[k]
    <3>1. k0 \in Nat /\ k \in Nat /\ k0 <= k /\ addr[k0] \in Nat /\ addr[k] \in Nat
      BY <1>3, <2>1 DEF Mounts
    <3>2. CASE k0 = k
      BY <3>1, <3>2
    <3>3. CASE k0 < k
      <4>1. addr[k0] < addr[k]
        BY <2>1, <3>3 DEF Mounts
      <4> QED
        BY <3>1, <4>1
    <3> QED
      BY <3>1, <3>2, <3>3
  <2> QED
    BY <2>1, <2>2 DEF S
<1>5. ASSUME n > 1 PROVE Header(Hunks[n - 1], other, addr) < Header(Hunks[n], other, addr)
  <2> DEFINE p == n - 1
             k0 == FirstOwn(Hunks[n], other)
             j0 == FirstOwn(Hunks[p], other)
  <2>1. p \in 1..Len(Hunks) /\ p < n
    BY <1>1, <1>5
  <2> HIDE DEF p
  <2>2. PICK x, e : /\ x \in Range(Hunks[n]) /\ e \in DOMAIN lines
                    /\ x = e + 1 /\ OpOf(x) = "equal" /\ OpOf(e) = "equal"
                    /\ \A l \in Range(Hunks[p]) : l < e
                    /\ \A l \in Range(Hunks[n]) : e < l
    BY <2>1, BetweenHunks
  <2>3. x \in Sided(Hunks[n], other)
    BY <2>2 DEF Sided
  <2>4. Header(Hunks[n], other, addr) = addr[k0] /\ k0 \in DOMAIN lines /\ OpOf(k0) # other /\ e < k0
    BY <1>2, <2>2, <2>3 DEF Header
  <2> HIDE DEF k0
  <2>5. addr[e] < addr[k0] /\ addr[e] \in Nat /\ addr[k0] \in Nat
    BY <2>2, <2>4 DEF Mounts
  <2>6. CASE Own(Hunks[p], other) = {}
    <3>1. Header(Hunks[p], other, addr) = 0
      BY <2>6 DEF Header
    <3> QED
      BY <2>4, <2>5, <3>1 DEF p
  <2>7. CASE Own(Hunks[p], other) # {}
    <3>1. Header(Hunks[p], other, addr) = addr[j0] /\ j0 \in DOMAIN lines /\ OpOf(j0) # other /\ j0 < e
      BY <1>2, <2>1, <2>2, <2>7 DEF Header
    <3> HIDE DEF j0
    <3>2. addr[j0] < addr[e] /\ addr[j0] \in Nat
      BY <2>2, <3>1 DEF Mounts
    <3> QED
      BY <2>4, <2>5, <3>1, <3>2 DEF p
  <2> QED
    BY <2>6, <2>7
<1> QED
  BY <1>4, <1>5

LEMMA HeadersFit ==
  ASSUME lines \in Seq(Line), LinesMatchInstructions
  PROVE  HeadersLocateHunks
<1> SUFFICES ASSUME Finished PROVE HeadersLocateHunks
  BY DEF HeadersLocateHunks
<1> DEFINE oa == [k \in DOMAIN lines |-> lines[k].old]
           na == [k \in DOMAIN lines |-> lines[k].new]
<1>1. /\ {lines[k].old : k \in ShownOld} = 0..(Len(a) - 1)
      /\ {lines[k].new : k \in ShownNew} = 0..(Len(b) - 1)
      /\ \A j, k \in ShownOld : j < k => lines[j].old < lines[k].old
      /\ \A j, k \in ShownNew : j < k => lines[j].new < lines[k].new
  BY DEF LinesMatchInstructions
<1>2. Mounts("insert", oa) /\ Mounts("delete", na)
  <2>1. \A k \in ShownOld : lines[k].old \in Nat
    <3>1. \A k \in ShownOld : lines[k].old \in 0..(Len(a) - 1)
      BY <1>1
    <3> QED
      BY <3>1
  <2>2. \A k \in ShownNew : lines[k].new \in Nat
    <3>1. \A k \in ShownNew : lines[k].new \in 0..(Len(b) - 1)
      BY <1>1
    <3> QED
      BY <3>1
  <2> QED
    BY <1>1, <2>1, <2>2 DEF Mounts, ShownOld, ShownNew, OpOf
<1>3. DOMAIN Hunks = 1..Len(Hunks) /\ \A n \in 1..Len(Hunks) : Range(Hunks[n]) \subseteq DOMAIN lines
  BY HunkFacts DEF NearChange
<1>4. \A k \in DOMAIN lines : oa[k] = lines[k].old /\ na[k] = lines[k].new
  OBVIOUS
<1> HIDE DEF oa, na
<1>5. ASSUME NEW n \in 1..Len(Hunks)
      PROVE  /\ HunkRange(Hunks[n]).old = Header(Hunks[n], "insert", oa)
             /\ HunkRange(Hunks[n]).new = Header(Hunks[n], "delete", na)
  <2>1. PICK g \in Nat : RunBefore(Hunks[n], g)
    BY HunkFacts
  <2>2. ASSUME NEW other, Own(Hunks[n], other) # {} PROVE FirstOwn(Hunks[n], other) \in DOMAIN lines
    <3>1. FirstOwn(Hunks[n], other) \in Sided(Hunks[n], other)
      BY <2>1, <2>2, FirstOwnFacts
    <3> QED
      BY <1>3, <3>1 DEF Sided
  <2> QED
    BY <1>4, <2>2 DEF HunkRange, Header
<1>6. ASSUME NEW n \in 1..Len(Hunks)
      PROVE  LET r == HunkRange(Hunks[n])
                 os == Sided(Hunks[n], "insert")
                 ns == Sided(Hunks[n], "delete")
             IN  /\ os # {} => (\A k \in os : r.old <= lines[k].old) /\ (\E k \in os : r.old = lines[k].old)
                 /\ ns # {} => (\A k \in ns : r.new <= lines[k].new) /\ (\E k \in ns : r.new = lines[k].new)
                 /\ n > 1 => HunkRange(Hunks[n - 1]).old < r.old /\ HunkRange(Hunks[n - 1]).new < r.new
  <2> DEFINE os == Sided(Hunks[n], "insert")
             ns == Sided(Hunks[n], "delete")
             ro == Header(Hunks[n], "insert", oa)
             rn == Header(Hunks[n], "delete", na)
  <2>1. \A k \in os \cup ns : oa[k] = lines[k].old /\ na[k] = lines[k].new
    BY <1>3, <1>4 DEF Sided
  <2>2. /\ os # {} => (\A k \in os : ro <= oa[k]) /\ (\E k \in os : ro = oa[k])
        /\ n > 1 => Header(Hunks[n - 1], "insert", oa) < ro
    BY <1>2, HeaderFits
  <2>3. /\ ns # {} => (\A k \in ns : rn <= na[k]) /\ (\E k \in ns : rn = na[k])
        /\ n > 1 => Header(Hunks[n - 1], "delete", na) < rn
    BY <1>2, HeaderFits
  <2>4. HunkRange(Hunks[n]).old = ro /\ HunkRange(Hunks[n]).new = rn
    BY <1>5
  <2>5. ASSUME n > 1
        PROVE  /\ HunkRange(Hunks[n - 1]).old = Header(Hunks[n - 1], "insert", oa)
               /\ HunkRange(Hunks[n - 1]).new = Header(Hunks[n - 1], "delete", na)
    <3>1. n - 1 \in 1..Len(Hunks)
      BY <2>5
    <3> QED
      BY <1>5, <3>1
  <2> HIDE DEF os, ns, ro, rn
  <2>6. os # {} => (\A k \in os : HunkRange(Hunks[n]).old <= lines[k].old) /\ (\E k \in os : HunkRange(Hunks[n]).old = lines[k].old)
    BY <2>1, <2>2, <2>4
  <2>7. ns # {} => (\A k \in ns : HunkRange(Hunks[n]).new <= lines[k].new) /\ (\E k \in ns : HunkRange(Hunks[n]).new = lines[k].new)
    BY <2>1, <2>3, <2>4
  <2>8. n > 1 => /\ HunkRange(Hunks[n - 1]).old < HunkRange(Hunks[n]).old
                 /\ HunkRange(Hunks[n - 1]).new < HunkRange(Hunks[n]).new
    BY <2>2, <2>3, <2>4, <2>5
  <2> QED
    BY <2>6, <2>7, <2>8 DEF os, ns
<1> QED
  BY <1>3, <1>6 DEF HeadersLocateHunks

(* report.go:211-212, for every script: all changes are shown with their   *)
(* context and nothing else, in hunks that are apart and that their headers*)
(* locate.                                                                 *)
THEOREM HunksAreWhole == Spec => []HunksShowTheChanges
<1>1. IInv /\ LinesMatchInstructions => HunksShowTheChanges
  <2>1. ASSUME IInv, LinesMatchInstructions PROVE HunksShowTheChanges
    <3>1. lines \in Seq(Line)
      BY <2>1 DEF IInv, Typed
    <3>2. HeadersLocateHunks
      BY <2>1, <3>1, HeadersFit
    <3> QED
      BY <3>1, <3>2, HunksShow DEF HunksShowTheChanges
  <2> QED
    BY <2>1
<1> QED
  BY <1>1, ScriptInvariant, ScriptRebuildsBothSides, PTL

-----------------------------------------------------------------------------
(* The rows of a hunk: its lines ascend, and in it no delete follows an    *)
(* insert.                                                                 *)
Fit(h) == /\ h \in Seq(Nat)
          /\ \A m \in 1..Len(h) : h[m] # 0 /\ OpOf(h[m]) \in Op
          /\ \A m, q \in 1..Len(h) : m < q => h[m] < h[q]
          /\ \A m \in 1..(Len(h) - 1) : ~(OpOf(h[m]) = "insert" /\ OpOf(h[m + 1]) = "delete")

RowSet == [old : Nat, new : Nat]
RowStates == [next : Nat \ {0}, rows : Seq(RowSet)]

OldColumn(rows) == [k \in DOMAIN rows |-> rows[k].old]
NewColumn(rows) == [k \in DOMAIN rows |-> rows[k].new]

(* The lines of one side before the p-th line of the hunk.                 *)
LinesBefore(h, p, other) == {l \in {h[m] : m \in 1..(p - 1)} : OpOf(l) # other}

Blank(row) == Marker(row) = " "
Tidy(rows) ==
  \A j, k \in DOMAIN rows :
    j < k /\ Lone(rows[j]) /\ Lone(rows[k]) /\ Marker(rows[j]) # Marker(rows[k]) =>
      \E m \in j..k : Blank(rows[m])

Rowed(h, rows, p) == /\ rows \in Seq(RowSet)
                     /\ ShowsOnce(OldColumn(rows), LinesBefore(h, p, "insert"))
                     /\ ShowsOnce(NewColumn(rows), LinesBefore(h, p, "delete"))
                     /\ Tidy(rows)

(* A divergence begins at p only after a row that is none.                 *)
Breaks(h, rows, p) == \/ rows = <<>>
                      \/ p > Len(h)
                      \/ OpOf(h[p]) = "equal"
                      \/ Blank(rows[Len(rows)])

LinedUp(h, st, n) == /\ st \in RowStates
                     /\ st.next \in 1..(Len(h) + 1)
                     /\ st.next > n \/ st.next = Len(h) + 1
                     /\ Rowed(h, st.rows, st.next)
                     /\ Breaks(h, st.rows, st.next)

LEMMA RunEndFacts ==
  ASSUME NEW h, Len(h) \in Nat, NEW k \in 1..(Len(h) + 1), NEW op
  PROVE  /\ RunEnd(h, k, op) \in k..(Len(h) + 1)
         /\ RunEnd(h, k, op) = Len(h) + 1 \/ OpOf(h[RunEnd(h, k, op)]) # op
         /\ \A m \in k..(RunEnd(h, k, op) - 1) : OpOf(h[m]) = op
<1> DEFINE S == {j \in k..(Len(h) + 1) : j = Len(h) + 1 \/ OpOf(h[j]) # op}
<1>1. Len(h) + 1 \in S /\ S \in SUBSET Nat
  OBVIOUS
<1>2. PICK j \in S : \A m \in S : j <= m
  <2> HIDE DEF S
  <2> QED
    BY <1>1, LeastElement
<1>3. ASSUME NEW m \in k..(j - 1) PROVE OpOf(h[m]) = op
  <2>1. m \notin S /\ m \in k..(Len(h) + 1) /\ m # Len(h) + 1
    BY <1>2
  <2> QED
    BY <2>1
<1>4. /\ j \in k..(Len(h) + 1)
      /\ j = Len(h) + 1 \/ OpOf(h[j]) # op
      /\ \A m \in k..(j - 1) : OpOf(h[m]) = op
  BY <1>2, <1>3
<1> QED
  BY <1>4 DEF RunEnd

LEMMA SubSeqFacts ==
  ASSUME NEW S, NEW h \in Seq(S), NEW p \in Nat \ {0}, NEW q \in Nat, p <= q, q <= Len(h) + 1
  PROVE  /\ SubSeq(h, p, q - 1) \in Seq(S) /\ Len(SubSeq(h, p, q - 1)) = q - p
         /\ \A m \in 1..(q - p) : SubSeq(h, p, q - 1)[m] = h[p + m - 1]
<1> DEFINE t == q - 1
<1>1. Len(h) \in Nat /\ t \in Int /\ p \in Int /\ t - p + 1 = q - p /\ (p <= t <=> p < q) /\ t <= Len(h)
  BY LenProperties
<1> HIDE DEF t
<1>2. \A i \in p..t : i \in 1..Len(h)
  BY <1>1
<1>3. \A i \in p..t : h[i] \in S
  BY <1>2, ElementOfSeq
<1>4. /\ SubSeq(h, p, t) \in Seq(S)
      /\ Len(SubSeq(h, p, t)) = IF p <= t THEN t - p + 1 ELSE 0
      /\ \A i \in 1..(t - p + 1) : SubSeq(h, p, t)[i] = h[p + i - 1]
  BY <1>1, <1>3, SubSeqProperties
<1>5. Len(SubSeq(h, p, t)) = q - p
  BY <1>1, <1>4
<1> QED
  BY <1>1, <1>4, <1>5 DEF t

LEMMA ZipFacts ==
  ASSUME NEW dels \in Seq(Nat), NEW inss \in Seq(Nat)
  PROVE  LET rows == ZipRows(dels, inss)
             n == Maximum(Len(dels), Len(inss))
         IN  /\ rows \in Seq(RowSet) /\ Len(rows) = n /\ DOMAIN rows = 1..n /\ n \in Nat
             /\ Len(dels) \in Nat /\ Len(inss) \in Nat /\ Len(dels) <= n /\ Len(inss) <= n
             /\ \A j \in 1..n : /\ rows[j].old = IF j <= Len(dels) THEN dels[j] ELSE 0
                                /\ rows[j].new = IF j <= Len(inss) THEN inss[j] ELSE 0
<1> DEFINE rows == ZipRows(dels, inss)
           n == Maximum(Len(dels), Len(inss))
<1>1. n \in Nat /\ Len(dels) \in Nat /\ Len(inss) \in Nat /\ Len(dels) <= n /\ Len(inss) <= n
  BY LenProperties DEF Maximum
<1>2. rows = [j \in 1..n |-> [old |-> IF j <= Len(dels) THEN dels[j] ELSE 0,
                              new |-> IF j <= Len(inss) THEN inss[j] ELSE 0]]
  BY DEF ZipRows
<1> HIDE DEF rows, n
<1>3. ASSUME NEW j \in 1..n
      PROVE  /\ (IF j <= Len(dels) THEN dels[j] ELSE 0) \in Nat
             /\ (IF j <= Len(inss) THEN inss[j] ELSE 0) \in Nat
  <2>1. j <= Len(dels) => j \in 1..Len(dels)
    BY <1>1
  <2>2. j <= Len(inss) => j \in 1..Len(inss)
    BY <1>1
  <2> QED
    BY <2>1, <2>2, ElementOfSeq
<1>4. rows \in [1..n -> RowSet]
  BY <1>2, <1>3 DEF RowSet
<1>5. rows \in Seq(RowSet) /\ Len(rows) = n
  BY <1>1, <1>4, FunctionIsSeq
<1>6. \A j \in 1..n : /\ rows[j].old = IF j <= Len(dels) THEN dels[j] ELSE 0
                      /\ rows[j].new = IF j <= Len(inss) THEN inss[j] ELSE 0
  BY <1>2
<1>7. DOMAIN rows = 1..n
  BY <1>4
<1> QED
  BY <1>1, <1>5, <1>6, <1>7 DEF rows, n

LEMMA RowType ==
  ASSUME NEW h \in Seq(Nat), NEW st \in RowStates
  PROVE  Row(h, st) \in RowStates
<1> DEFINE k == st.next
           d == RunEnd(h, k, "delete")
           e == RunEnd(h, d, "insert")
           r == [old |-> h[k], new |-> h[k]]
           z == ZipRows(SubSeq(h, k, d - 1), SubSeq(h, d, e - 1))
<1>1. Len(h) \in Nat /\ k \in Nat \ {0} /\ st.rows \in Seq(RowSet)
  BY LenProperties DEF RowStates
<1>2. Row(h, st) = IF k > Len(h) THEN st
                   ELSE IF OpOf(h[k]) = "equal" THEN [next |-> k + 1, rows |-> Append(st.rows, r)]
                   ELSE [next |-> e, rows |-> st.rows \o z]
  BY DEF Row
<1>3. CASE k > Len(h)
  BY <1>2, <1>3
<1>4. CASE ~(k > Len(h))
  <2>1. k \in 1..Len(h) /\ k \in 1..(Len(h) + 1)
    BY <1>1, <1>4
  <2>2. d \in k..(Len(h) + 1)
    BY <1>1, <2>1, RunEndFacts
  <2>3. d \in 1..(Len(h) + 1)
    BY <2>1, <2>2
  <2>4. e \in d..(Len(h) + 1)
    BY <1>1, <2>3, RunEndFacts
  <2> HIDE DEF k, d, e
  <2>5. SubSeq(h, k, d - 1) \in Seq(Nat) /\ SubSeq(h, d, e - 1) \in Seq(Nat)
    <3>1. d \in Nat \ {0} /\ k <= d /\ d <= Len(h) + 1 /\ e \in Nat /\ d <= e /\ e <= Len(h) + 1 /\ k \in Nat \ {0} /\ d \in Nat
      BY <1>1, <2>1, <2>2, <2>3, <2>4
    <3> QED
      BY <3>1, SubSeqFacts
  <2>6. z \in Seq(RowSet)
    BY <2>5, ZipFacts
  <2> HIDE DEF z
  <2>7. st.rows \o z \in Seq(RowSet)
    BY <1>1, <2>6, ConcatProperties
  <2>8. r \in RowSet
    <3>1. h[k] \in Nat
      BY <2>1, ElementOfSeq
    <3> QED
      BY <3>1 DEF RowSet
  <2> HIDE DEF r
  <2>9. Append(st.rows, r) \in Seq(RowSet)
    BY <1>1, <2>8, AppendProperties
  <2>10. k + 1 \in Nat \ {0} /\ e \in Nat \ {0}
    BY <1>1, <2>3, <2>4
  <2> QED
    BY <1>2, <1>4, <2>7, <2>9, <2>10 DEF RowStates
<1> QED
  BY <1>3, <1>4

(* Columns one after the other.                                            *)
LEMMA ColumnsConcat ==
  ASSUME NEW n \in Nat, NEW q \in Nat, NEW c, NEW d, NEW e, NEW C \in SUBSET Nat, NEW D \in SUBSET Nat,
         DOMAIN c = 1..n, DOMAIN d = 1..q, DOMAIN e = 1..(n + q),
         \A k \in 1..n : e[k] = c[k],
         \A k \in 1..q : e[n + k] = d[k],
         ShowsOnce(c, C), ShowsOnce(d, D),
         \A x \in C, y \in D : x < y
  PROVE  ShowsOnce(e, C \cup D)
<1> DEFINE SC == {k \in 1..n : c[k] # 0}
           SD == {k \in 1..q : d[k] # 0}
           SE == {k \in 1..(n + q) : e[k] # 0}
<1>1. /\ {c[k] : k \in SC} = C /\ \A j, k \in SC : j < k => c[j] < c[k]
      /\ {d[k] : k \in SD} = D /\ \A j, k \in SD : j < k => d[j] < d[k]
  BY DEF ShowsOnce
<1>2. ASSUME NEW k \in 1..(n + q)
      PROVE  \/ k \in 1..n /\ (k \in SE <=> k \in SC) /\ e[k] = c[k]
             \/ k > n /\ k - n \in 1..q /\ (k \in SE <=> k - n \in SD) /\ e[k] = d[k - n]
  <2>1. CASE k <= n
    BY <2>1
  <2>2. CASE k > n
    <3> DEFINE m == k - n
    <3>1. m \in 1..q /\ k = n + m
      BY <2>2
    <3>2. e[n + m] = d[m]
      BY <3>1
    <3> QED
      BY <2>2, <3>1, <3>2
  <2> QED
    BY <2>1, <2>2
<1>3. ASSUME NEW k \in SE
      PROVE  \/ k \in SC /\ e[k] = c[k] /\ e[k] \in C
             \/ k > n /\ k - n \in SD /\ e[k] = d[k - n] /\ e[k] \in D
  BY <1>1, <1>2
<1>4. ASSUME NEW x \in C \cup D PROVE \E k \in SE : e[k] = x
  <2>1. CASE x \in C
    <3>1. PICK k \in SC : c[k] = x
      BY <1>1, <2>1
    <3>2. k \in 1..(n + q) /\ e[k] = c[k]
      OBVIOUS
    <3> QED
      BY <3>1, <3>2
  <2>2. CASE x \in D
    <3>1. PICK k \in SD : d[k] = x
      BY <1>1, <2>2
    <3>2. n + k \in 1..(n + q) /\ e[n + k] = d[k]
      OBVIOUS
    <3> QED
      BY <3>1, <3>2
  <2> QED
    BY <2>1, <2>2
<1>5. {e[k] : k \in SE} = C \cup D
  <2> HIDE DEF SE, SC, SD
  <2>1. \A k \in SE : e[k] \in C \cup D
    BY <1>3
  <2> QED
    BY <1>4, <2>1
<1>6. ASSUME NEW j \in SE, NEW k \in SE, j < k PROVE e[j] < e[k]
  <2>1. CASE j \in SC /\ k \in SC
    BY <1>1, <1>6, <2>1
  <2>2. CASE j > n /\ k > n
    <3>1. j - n \in SD /\ e[j] = d[j - n] /\ k - n \in SD /\ e[k] = d[k - n] /\ j - n < k - n
      BY <1>3, <1>6, <2>2
    <3> HIDE DEF SD
    <3> QED
      BY <1>1, <3>1
  <2>3. CASE j \in SC /\ k > n
    <3>1. e[j] \in C /\ e[k] \in D
      BY <1>1, <1>3, <2>3
    <3> QED
      BY <3>1
  <2>4. j > n => k > n
    BY <1>6
  <2> QED
    BY <1>3, <2>1, <2>2, <2>3, <2>4
<1> QED
  BY <1>5, <1>6 DEF ShowsOnce

(* A list of lines with nothing after it.                                  *)
LEMMA PaddedShows ==
  ASSUME NEW s \in Seq(Nat), NEW n \in Nat, Len(s) <= n, NEW col, DOMAIN col = 1..n,
         \A j \in 1..n : col[j] = IF j <= Len(s) THEN s[j] ELSE 0,
         \A j \in 1..Len(s) : s[j] # 0,
         \A j, k \in 1..Len(s) : j < k => s[j] < s[k]
  PROVE  ShowsOnce(col, {s[j] : j \in 1..Len(s)})
<1>1. Len(s) \in Nat
  BY LenProperties
<1>2. {k \in DOMAIN col : col[k] # 0} = 1..Len(s) /\ \A j \in 1..Len(s) : col[j] = s[j]
  BY <1>1
<1> QED
  BY <1>2 DEF ShowsOnce

LEMMA TidyConcat ==
  ASSUME NEW r \in Seq(RowSet), NEW s \in Seq(RowSet), Tidy(r), Tidy(s),
         \/ r = <<>>
         \/ Blank(r[Len(r)])
         \/ \A k \in DOMAIN s : ~Lone(s[k])
  PROVE  Tidy(r \o s)
<1> DEFINE n == Len(r)
           t == r \o s
<1>1. /\ n \in Nat /\ Len(s) \in Nat /\ DOMAIN r = 1..n /\ DOMAIN s = 1..Len(s)
      /\ DOMAIN t = 1..(n + Len(s))
  <2>1. t \in Seq(RowSet) /\ Len(t) = n + Len(s)
    BY Concatenated
  <2> QED
    BY <2>1, LenProperties
<1>2. /\ \A k \in 1..n : t[k] = r[k]
      /\ \A k \in 1..Len(s) : t[n + k] = s[k]
  BY Concatenated
<1>3. r = <<>> => n = 0
  BY EmptyLen
<1> HIDE DEF n, t
<1> SUFFICES ASSUME NEW j \in 1..(n + Len(s)), NEW k \in 1..(n + Len(s)),
                    j < k, Lone(t[j]), Lone(t[k]), Marker(t[j]) # Marker(t[k])
             PROVE  \E m \in j..k : Blank(t[m])
  BY <1>1 DEF Tidy, t
<1>4. CASE k <= n
  <2>1. j \in 1..n /\ k \in 1..n
    BY <1>1, <1>4
  <2>2. \E m \in j..k : Blank(r[m])
    <3>1. t[j] = r[j] /\ t[k] = r[k]
      BY <1>2, <2>1
    <3> QED
      BY <1>1, <2>1, <3>1 DEF Tidy
  <2>3. \A m \in j..k : m \in 1..n
    BY <1>1, <2>1
  <2> QED
    BY <1>2, <2>2, <2>3
<1>5. CASE j > n
  <2> DEFINE x == j - n
             y == k - n
  <2>1. x \in 1..Len(s) /\ y \in 1..Len(s) /\ x < y /\ j = n + x /\ k = n + y
    BY <1>1, <1>5
  <2> HIDE DEF x, y
  <2>2. t[j] = s[x] /\ t[k] = s[y]
    BY <1>2, <2>1
  <2>3. PICK m \in x..y : Blank(s[m])
    BY <1>1, <2>1, <2>2 DEF Tidy
  <2>4. m \in 1..Len(s) /\ n + m \in j..k
    BY <1>1, <2>1
  <2> QED
    BY <1>2, <2>3, <2>4
<1>6. CASE j <= n /\ k > n
  <2> DEFINE y == k - n
  <2>1. y \in 1..Len(s) /\ k = n + y /\ n \in 1..n /\ n \in j..k /\ n # 0
    BY <1>1, <1>6
  <2> HIDE DEF y
  <2>2. Lone(s[y])
    BY <1>2, <2>1
  <2>3. Blank(r[n])
    BY <1>1, <1>3, <2>1, <2>2 DEF n
  <2> QED
    BY <1>2, <2>1, <2>3
<1> QED
  BY <1>1, <1>4, <1>5, <1>6

(* More rows, which show the lines from p to e.                            *)
LEMMA RowedConcat ==
  ASSUME NEW h, NEW p, NEW e, NEW r, Rowed(h, r, p), NEW s \in Seq(RowSet),
         NEW D \in SUBSET Nat, NEW I \in SUBSET Nat, ShowsOnce(OldColumn(s), D), ShowsOnce(NewColumn(s), I),
         LinesBefore(h, p, "insert") \in SUBSET Nat, LinesBefore(h, p, "delete") \in SUBSET Nat,
         LinesBefore(h, e, "insert") = LinesBefore(h, p, "insert") \cup D,
         LinesBefore(h, e, "delete") = LinesBefore(h, p, "delete") \cup I,
         \A x \in LinesBefore(h, p, "insert"), y \in D : x < y,
         \A x \in LinesBefore(h, p, "delete"), y \in I : x < y,
         Tidy(s), r = <<>> \/ Blank(r[Len(r)]) \/ \A k \in DOMAIN s : ~Lone(s[k])
  PROVE  Rowed(h, r \o s, e)
<1> DEFINE n == Len(r)
           q == Len(s)
           t == r \o s
<1>1. r \in Seq(RowSet) /\ Tidy(r)
  BY DEF Rowed
<1>2. t \in Seq(RowSet) /\ Len(t) = n + q
  BY <1>1, Concatenated
<1>3. /\ n \in Nat /\ q \in Nat /\ DOMAIN r = 1..n /\ DOMAIN s = 1..q
      /\ DOMAIN t = 1..(n + q)
  BY <1>1, <1>2, LenProperties
<1>4. /\ \A k \in 1..n : t[k] = r[k]
      /\ \A k \in 1..q : t[n + k] = s[k]
  BY <1>1, Concatenated
<1>5. Tidy(t)
  BY <1>1, TidyConcat
<1> HIDE DEF n, q, t
<1>6. ShowsOnce(OldColumn(t), LinesBefore(h, p, "insert") \cup D)
  <2>1. DOMAIN OldColumn(r) = 1..n /\ DOMAIN OldColumn(s) = 1..q /\ DOMAIN OldColumn(t) = 1..(n + q)
    BY <1>3 DEF OldColumn
  <2>2. \A k \in 1..n : OldColumn(t)[k] = OldColumn(r)[k]
    BY <1>3, <1>4 DEF OldColumn
  <2>3. \A k \in 1..q : OldColumn(t)[n + k] = OldColumn(s)[k]
    <3>1. \A k \in 1..q : n + k \in 1..(n + q)
      BY <1>3
    <3> QED
      BY <1>3, <1>4, <3>1 DEF OldColumn
  <2>4. ShowsOnce(OldColumn(r), LinesBefore(h, p, "insert"))
    BY DEF Rowed
  <2> QED
    BY <1>3, <2>1, <2>2, <2>3, <2>4, ColumnsConcat
<1>7. ShowsOnce(NewColumn(t), LinesBefore(h, p, "delete") \cup I)
  <2>1. DOMAIN NewColumn(r) = 1..n /\ DOMAIN NewColumn(s) = 1..q /\ DOMAIN NewColumn(t) = 1..(n + q)
    BY <1>3 DEF NewColumn
  <2>2. \A k \in 1..n : NewColumn(t)[k] = NewColumn(r)[k]
    BY <1>3, <1>4 DEF NewColumn
  <2>3. \A k \in 1..q : NewColumn(t)[n + k] = NewColumn(s)[k]
    <3>1. \A k \in 1..q : n + k \in 1..(n + q)
      BY <1>3
    <3> QED
      BY <1>3, <1>4, <3>1 DEF NewColumn
  <2>4. ShowsOnce(NewColumn(r), LinesBefore(h, p, "delete"))
    BY DEF Rowed
  <2> QED
    BY <1>3, <2>1, <2>2, <2>3, <2>4, ColumnsConcat
<1> QED
  BY <1>2, <1>5, <1>6, <1>7 DEF Rowed, t

GoesOn(h, p, q, other) ==
  /\ LinesBefore(h, p, other) \in SUBSET Nat
  /\ \A x \in LinesBefore(h, p, other), m \in p..Len(h) : x < h[m]
  /\ LinesBefore(h, q, other) = LinesBefore(h, p, other) \cup {l \in {h[m] : m \in p..(q - 1)} : OpOf(l) # other}

LEMMA BeforeFit ==
  ASSUME NEW h, Fit(h), NEW p \in 1..(Len(h) + 1), NEW q \in p..(Len(h) + 1), NEW other
  PROVE  GoesOn(h, p, q, other)
<1>1. /\ h \in Seq(Nat) /\ Len(h) \in Nat /\ \A m, r \in 1..Len(h) : m < r => h[m] < h[r]
  BY LenProperties DEF Fit
<1>2. \A m \in 1..Len(h) : h[m] \in Nat
  BY <1>1, ElementOfSeq
<1>3. \A m \in 1..(p - 1) : m \in 1..Len(h)
  BY <1>1
<1>4. ASSUME NEW x \in LinesBefore(h, p, other) PROVE x \in Nat /\ \A m \in p..Len(h) : x < h[m]
  <2>1. PICK r \in 1..(p - 1) : x = h[r]
    BY DEF LinesBefore
  <2>2. r \in 1..Len(h) /\ \A m \in p..Len(h) : m \in 1..Len(h) /\ r < m
    BY <1>1, <1>3
  <2> QED
    BY <1>1, <1>2, <2>1, <2>2
<1>5. \A m : m \in 1..(q - 1) <=> m \in 1..(p - 1) \/ m \in p..(q - 1)
  BY <1>1
<1>6. LinesBefore(h, q, other) = LinesBefore(h, p, other) \cup {l \in {h[m] : m \in p..(q - 1)} : OpOf(l) # other}
  BY <1>5 DEF LinesBefore
<1> QED
  BY <1>4, <1>6 DEF GoesOn

LEMMA RowEqual ==
  ASSUME NEW h, Fit(h), NEW n \in Nat, NEW st, LinedUp(h, st, n),
         st.next <= Len(h), OpOf(h[st.next]) = "equal"
  PROVE  LinedUp(h, Row(h, st), n + 1)
<1> DEFINE k == st.next
           r == [old |-> h[k], new |-> h[k]]
           s == <<r>>
<1>1. /\ st \in RowStates /\ k \in 1..(Len(h) + 1) /\ (k > n \/ k = Len(h) + 1)
      /\ Rowed(h, st.rows, k) /\ h \in Seq(Nat) /\ Len(h) \in Nat
      /\ st.rows \in Seq(RowSet)
  BY LenProperties DEF LinedUp, Fit, RowStates
<1>2. /\ k \in 1..Len(h) /\ k + 1 \in k..(Len(h) + 1) /\ k + 1 \in Nat /\ k + 1 > n + 1
      /\ k..((k + 1) - 1) = {k}
  BY <1>1
<1>3. Row(h, st) = [next |-> k + 1, rows |-> Append(st.rows, r)]
  BY <1>1 DEF Row
<1>4. Row(h, st) \in RowStates
  BY <1>1, RowType
<1> HIDE DEF k
<1>5. h[k] \in Nat /\ h[k] # 0 /\ OpOf(h[k]) = "equal"
  BY <1>1, <1>2, ElementOfSeq DEF Fit, k
<1>6. r \in RowSet /\ r.old = h[k] /\ r.new = h[k]
  BY <1>5 DEF RowSet
<1>7. Blank(r) /\ ~Lone(r)
  BY <1>5, <1>6 DEF Blank, Lone, Marker
<1> HIDE DEF r
<1>8. s \in Seq(RowSet) /\ Len(s) = 1 /\ DOMAIN s = 1..1 /\ s[1] = r
  BY <1>6
<1>9. Append(st.rows, r) = st.rows \o s
  BY <1>1, <1>6, AppendIsConcat
<1> HIDE DEF s
<1>10. Tidy(s) /\ \A j \in DOMAIN s : ~Lone(s[j])
  BY <1>7, <1>8 DEF Tidy
<1>11. ASSUME NEW c, DOMAIN c = 1..1, c[1] = h[k] PROVE ShowsOnce(c, {h[k]})
  BY <1>5, <1>11 DEF ShowsOnce
<1>12. ShowsOnce(OldColumn(s), {h[k]}) /\ ShowsOnce(NewColumn(s), {h[k]})
  <2>1. DOMAIN OldColumn(s) = 1..1 /\ OldColumn(s)[1] = h[k] /\ DOMAIN NewColumn(s) = 1..1 /\ NewColumn(s)[1] = h[k]
    BY <1>6, <1>8 DEF OldColumn, NewColumn
  <2> QED
    BY <1>11, <2>1
<1>13. ASSUME NEW other, other # "equal"
       PROVE  /\ LinesBefore(h, k, other) \in SUBSET Nat
              /\ \A x \in LinesBefore(h, k, other), y \in {h[k]} : x < y
              /\ LinesBefore(h, k + 1, other) = LinesBefore(h, k, other) \cup {h[k]}
  <2>1. /\ LinesBefore(h, k, other) \in SUBSET Nat
        /\ \A x \in LinesBefore(h, k, other), m \in k..Len(h) : x < h[m]
        /\ LinesBefore(h, k + 1, other) = LinesBefore(h, k, other) \cup {l \in {h[m] : m \in k..((k + 1) - 1)} : OpOf(l) # other}
    <3>1. GoesOn(h, k, k + 1, other)
      BY <1>1, <1>2, BeforeFit
    <3> QED
      BY <3>1 DEF GoesOn
  <2>2. {l \in {h[m] : m \in k..((k + 1) - 1)} : OpOf(l) # other} = {h[k]}
    BY <1>2, <1>5, <1>13
  <2>3. k \in k..Len(h)
    BY <1>2
  <2> QED
    BY <2>1, <2>2, <2>3
<1>14. Rowed(h, st.rows \o s, k + 1)
  <2>1. {h[k]} \in SUBSET Nat
    BY <1>5
  <2> QED
    BY <1>1, <1>8, <1>10, <1>12, <1>13, <2>1, RowedConcat
<1>15. Breaks(h, st.rows \o s, k + 1)
  <2>1. Len(st.rows \o s) = Len(st.rows) + 1 /\ (st.rows \o s)[Len(st.rows) + 1] = r
    BY <1>1, <1>6, <1>9, AppendProperties
  <2> QED
    BY <1>7, <2>1 DEF Breaks
<1>16. k + 1 \in 1..(Len(h) + 1)
  BY <1>2
<1> QED
  BY <1>2, <1>3, <1>4, <1>9, <1>14, <1>15, <1>16 DEF LinedUp

(* Of the rows of a divergence only the ones of the longer side are left   *)
(* without a partner.                                                      *)
LEMMA ZipTidy ==
  ASSUME NEW dels \in Seq(Nat), NEW inss \in Seq(Nat),
         \A j \in 1..Len(dels) : dels[j] # 0 /\ OpOf(dels[j]) = "delete",
         \A j \in 1..Len(inss) : inss[j] # 0 /\ OpOf(inss[j]) = "insert"
  PROVE  Tidy(ZipRows(dels, inss))
<1> DEFINE rows == ZipRows(dels, inss)
           n == Maximum(Len(dels), Len(inss))
<1>1. /\ DOMAIN rows = 1..n /\ n \in Nat
      /\ Len(dels) \in Nat /\ Len(inss) \in Nat
      /\ \A j \in 1..n : /\ rows[j].old = IF j <= Len(dels) THEN dels[j] ELSE 0
                         /\ rows[j].new = IF j <= Len(inss) THEN inss[j] ELSE 0
  BY ZipFacts
<1>2. n = IF Len(dels) < Len(inss) THEN Len(inss) ELSE Len(dels)
  BY DEF Maximum
<1> HIDE DEF rows, n
<1>3. CASE ~(Len(dels) < Len(inss))
  <2>1. ASSUME NEW j \in 1..n PROVE Marker(rows[j]) \in {"|", "<"}
    <3>1. j \in 1..Len(dels) /\ j <= Len(dels)
      BY <1>1, <1>2, <1>3
    <3>2. rows[j].old # 0 /\ OpOf(rows[j].old) = "delete"
      BY <1>1, <3>1
    <3> QED
      BY <3>2 DEF Marker
  <2> QED
    BY <1>1, <2>1 DEF Tidy, Lone, rows
<1>4. CASE Len(dels) < Len(inss)
  <2>1. ASSUME NEW j \in 1..n PROVE Marker(rows[j]) \in {"|", ">"}
    <3>1. j \in 1..Len(inss) /\ j <= Len(inss)
      BY <1>1, <1>2, <1>4
    <3>2. rows[j].new # 0 /\ OpOf(rows[j].new) = "insert"
      BY <1>1, <3>1
    <3>3. j <= Len(dels) => rows[j].old # 0 /\ OpOf(rows[j].old) = "delete"
      <4>1. j <= Len(dels) => j \in 1..Len(dels)
        BY <1>1
      <4> QED
        BY <1>1, <4>1
    <3>4. ~(j <= Len(dels)) => rows[j].old = 0
      BY <1>1
    <3> QED
      BY <3>2, <3>3, <3>4 DEF Marker
  <2> QED
    BY <1>1, <2>1 DEF Tidy, Lone, rows
<1> QED
  BY <1>3, <1>4

(* A stretch of the hunk, as a list of its lines.                          *)
AllAlike(h, p, q, op) == \A m \in p..(q - 1) : OpOf(h[m]) = op
Stretch(s, h, p, q, op) ==
  /\ s \in Seq(Nat) /\ Len(s) \in Nat
  /\ \A j \in 1..Len(s) : s[j] # 0 /\ OpOf(s[j]) = op
  /\ \A j, k \in 1..Len(s) : j < k => s[j] < s[k]
  /\ {s[j] : j \in 1..Len(s)} = {h[m] : m \in p..(q - 1)}

LEMMA StretchFacts ==
  ASSUME NEW h, Fit(h), NEW p \in 1..(Len(h) + 1), NEW q \in p..(Len(h) + 1), NEW op,
         AllAlike(h, p, q, op)
  PROVE  Stretch(SubSeq(h, p, q - 1), h, p, q, op)
<1> DEFINE s == SubSeq(h, p, q - 1)
<1>1. /\ h \in Seq(Nat) /\ Len(h) \in Nat
      /\ \A m \in 1..Len(h) : h[m] # 0
      /\ \A m, r \in 1..Len(h) : m < r => h[m] < h[r]
  BY LenProperties DEF Fit
<1>2. s \in Seq(Nat) /\ Len(s) = q - p /\ \A m \in 1..(q - p) : s[m] = h[p + m - 1]
  <2>1. p \in Nat \ {0} /\ q \in Nat /\ p <= q /\ q <= Len(h) + 1
    BY <1>1
  <2>2. h \in Seq(Nat)
    BY <1>1
  <2> QED
    BY <2>1, <2>2, SubSeqFacts
<1> HIDE DEF s
<1>3. p \in Nat /\ q \in Nat /\ p <= q /\ Len(s) \in Nat
  BY <1>1, <1>2
<1>4. ASSUME NEW j \in 1..Len(s)
      PROVE  p + j - 1 \in 1..Len(h) /\ p + j - 1 \in p..(q - 1) /\ s[j] = h[p + j - 1]
  BY <1>1, <1>2, <1>3
<1>5. ASSUME NEW j \in 1..Len(s) PROVE s[j] # 0 /\ OpOf(s[j]) = op
  BY <1>1, <1>4 DEF AllAlike
<1>6. ASSUME NEW j \in 1..Len(s), NEW k \in 1..Len(s), j < k PROVE s[j] < s[k]
  <2>1. p + j - 1 < p + k - 1
    BY <1>3, <1>6
  <2> QED
    BY <1>1, <1>4, <2>1
<1>7. ASSUME NEW m \in p..(q - 1) PROVE \E j \in 1..Len(s) : s[j] = h[m]
  <2> DEFINE j == m - p + 1
  <2>1. j \in 1..Len(s) /\ p + j - 1 = m
    BY <1>2, <1>3
  <2> QED
    BY <1>4, <2>1
<1>8. {s[j] : j \in 1..Len(s)} = {h[m] : m \in p..(q - 1)}
  <2>1. \A j \in 1..Len(s) : \E m \in p..(q - 1) : s[j] = h[m]
    BY <1>4
  <2>2. \A m \in p..(q - 1) : \E j \in 1..Len(s) : s[j] = h[m]
    BY <1>7
  <2>3. ASSUME NEW x PROVE x \in {s[j] : j \in 1..Len(s)} <=> x \in {h[m] : m \in p..(q - 1)}
    <3>1. x \in {s[j] : j \in 1..Len(s)} <=> \E j \in 1..Len(s) : x = s[j]
      OBVIOUS
    <3>2. x \in {h[m] : m \in p..(q - 1)} <=> \E m \in p..(q - 1) : x = h[m]
      OBVIOUS
    <3> QED
      BY <2>1, <2>2, <3>1, <3>2
  <2> QED
    BY <2>3, Zenon
<1> QED
  BY <1>2, <1>3, <1>5, <1>6, <1>8 DEF s, Stretch

LEMMA RowDiverges ==
  ASSUME NEW h, Fit(h), NEW n \in Nat, NEW st, LinedUp(h, st, n),
         st.next <= Len(h), OpOf(h[st.next]) # "equal"
  PROVE  LinedUp(h, Row(h, st), n + 1)
<1> DEFINE k == st.next
           d == RunEnd(h, k, "delete")
           e == RunEnd(h, d, "insert")
           dels == SubSeq(h, k, d - 1)
           inss == SubSeq(h, d, e - 1)
           z == ZipRows(dels, inss)
           D == {dels[j] : j \in 1..Len(dels)}
           I == {inss[j] : j \in 1..Len(inss)}
<1>1. /\ st \in RowStates /\ k \in 1..(Len(h) + 1) /\ (k > n \/ k = Len(h) + 1)
      /\ Rowed(h, st.rows, k) /\ h \in Seq(Nat) /\ Len(h) \in Nat
      /\ st.rows \in Seq(RowSet) /\ Breaks(h, st.rows, k)
  BY LenProperties DEF LinedUp, Fit, RowStates
<1>2. k \in 1..Len(h) /\ k > n /\ OpOf(h[k]) \in {"delete", "insert"}
  <2>1. k \in 1..Len(h) /\ k > n
    BY <1>1
  <2> QED
    BY <2>1 DEF Fit, Op
<1>3. Row(h, st) = [next |-> e, rows |-> st.rows \o z]
  BY <1>1 DEF Row
<1>4. Row(h, st) \in RowStates
  BY <1>1, RowType
<1>5. st.rows = <<>> \/ Blank(st.rows[Len(st.rows)])
  BY <1>1 DEF Breaks
<1> HIDE DEF k
<1>6. /\ d \in k..(Len(h) + 1)
      /\ d = Len(h) + 1 \/ OpOf(h[d]) # "delete"
      /\ \A m \in k..(d - 1) : OpOf(h[m]) = "delete"
  BY <1>1, RunEndFacts
<1> HIDE DEF d
<1>7. d \in 1..(Len(h) + 1) /\ d \in Nat
  BY <1>1, <1>6
<1>8. /\ e \in d..(Len(h) + 1)
      /\ e = Len(h) + 1 \/ OpOf(h[e]) # "insert"
      /\ \A m \in d..(e - 1) : OpOf(h[m]) = "insert"
  BY <1>1, <1>7, RunEndFacts
<1> HIDE DEF e
<1>9. e \in k..(Len(h) + 1) /\ e > k
  <2>1. CASE d > k
    BY <1>1, <1>6, <1>7, <1>8, <2>1
  <2>2. CASE d = k
    <3>1. OpOf(h[d]) = "insert" /\ d # Len(h) + 1
      BY <1>1, <1>2, <1>6, <2>2
    <3>2. e # d
      BY <1>8, <3>1
    <3> QED
      BY <1>1, <1>6, <1>7, <1>8, <2>2, <3>2
  <2> QED
    BY <1>1, <1>6, <2>1, <2>2
<1>10. /\ dels \in Seq(Nat) /\ Len(dels) \in Nat
       /\ \A j \in 1..Len(dels) : dels[j] # 0 /\ OpOf(dels[j]) = "delete"
       /\ \A i, j \in 1..Len(dels) : i < j => dels[i] < dels[j]
       /\ D = {h[m] : m \in k..(d - 1)}
  <2>1. AllAlike(h, k, d, "delete")
    BY <1>6 DEF AllAlike
  <2>2. Stretch(dels, h, k, d, "delete")
    BY <1>1, <1>6, <2>1, StretchFacts
  <2> QED
    BY <2>2 DEF Stretch
<1>11. /\ inss \in Seq(Nat) /\ Len(inss) \in Nat
       /\ \A j \in 1..Len(inss) : inss[j] # 0 /\ OpOf(inss[j]) = "insert"
       /\ \A i, j \in 1..Len(inss) : i < j => inss[i] < inss[j]
       /\ I = {h[m] : m \in d..(e - 1)}
  <2>1. AllAlike(h, d, e, "insert")
    BY <1>8 DEF AllAlike
  <2>2. Stretch(inss, h, d, e, "insert")
    BY <1>7, <1>8, <2>1, StretchFacts
  <2> QED
    BY <2>2 DEF Stretch
<1> HIDE DEF dels, inss
<1>12. Tidy(z)
  BY <1>10, <1>11, ZipTidy
<1>13. z \in Seq(RowSet) /\ ShowsOnce(OldColumn(z), D) /\ ShowsOnce(NewColumn(z), I)
  <2> DEFINE q == Maximum(Len(dels), Len(inss))
  <2>1. /\ z \in Seq(RowSet) /\ DOMAIN z = 1..q /\ q \in Nat
        /\ Len(dels) <= q /\ Len(inss) <= q
        /\ \A j \in 1..q : /\ z[j].old = IF j <= Len(dels) THEN dels[j] ELSE 0
                           /\ z[j].new = IF j <= Len(inss) THEN inss[j] ELSE 0
    BY <1>10, <1>11, ZipFacts
  <2> HIDE DEF q, z
  <2>2. /\ DOMAIN OldColumn(z) = 1..q
        /\ \A j \in 1..q : OldColumn(z)[j] = IF j <= Len(dels) THEN dels[j] ELSE 0
    BY <2>1 DEF OldColumn
  <2>3. /\ DOMAIN NewColumn(z) = 1..q
        /\ \A j \in 1..q : NewColumn(z)[j] = IF j <= Len(inss) THEN inss[j] ELSE 0
    BY <2>1 DEF NewColumn
  <2>4. \A j \in 1..Len(dels) : dels[j] # 0
    BY <1>10
  <2>5. \A j \in 1..Len(inss) : inss[j] # 0
    BY <1>11
  <2>6. ShowsOnce(OldColumn(z), D)
    BY <1>10, <2>1, <2>2, <2>4, PaddedShows
  <2>7. ShowsOnce(NewColumn(z), I)
    BY <1>11, <2>1, <2>3, <2>5, PaddedShows
  <2> QED
    BY <2>1, <2>6, <2>7
<1> HIDE DEF z, D, I
<1>14. ASSUME NEW other
       PROVE  /\ LinesBefore(h, k, other) \in SUBSET Nat
              /\ \A x \in LinesBefore(h, k, other), m \in k..Len(h) : x < h[m]
              /\ LinesBefore(h, e, other) = LinesBefore(h, k, other) \cup {l \in {h[m] : m \in k..(e - 1)} : OpOf(l) # other}
  <2>1. GoesOn(h, k, e, other)
    BY <1>1, <1>9, BeforeFit
  <2> QED
    BY <2>1 DEF GoesOn
<1>15. \A m : m \in k..(e - 1) <=> m \in k..(d - 1) \/ m \in d..(e - 1)
  BY <1>1, <1>6, <1>7, <1>8
<1>16. {l \in {h[m] : m \in k..(e - 1)} : OpOf(l) # "insert"} = D
  <2>1. \A m \in k..(d - 1) : OpOf(h[m]) # "insert"
    BY <1>6
  <2>2. \A m \in d..(e - 1) : ~(OpOf(h[m]) # "insert")
    BY <1>8
  <2> QED
    BY <1>10, <1>15, <2>1, <2>2
<1>17. {l \in {h[m] : m \in k..(e - 1)} : OpOf(l) # "delete"} = I
  <2>1. \A m \in k..(d - 1) : ~(OpOf(h[m]) # "delete")
    BY <1>6
  <2>2. \A m \in d..(e - 1) : OpOf(h[m]) # "delete"
    BY <1>8
  <2> QED
    BY <1>11, <1>15, <2>1, <2>2
<1>18. /\ D \in SUBSET Nat /\ I \in SUBSET Nat
       /\ \A x \in LinesBefore(h, k, "insert"), y \in D : x < y
       /\ \A x \in LinesBefore(h, k, "delete"), y \in I : x < y
  <2>1. \A m \in k..(e - 1) : m \in k..Len(h) /\ m \in 1..Len(h)
    BY <1>1, <1>9
  <2>2. \A m \in k..(e - 1) : h[m] \in Nat
    BY <1>1, <2>1, ElementOfSeq
  <2>3. \A y \in D \cup I : \E m \in k..(e - 1) : y = h[m]
    BY <1>16, <1>17
  <2> QED
    BY <1>14, <2>1, <2>2, <2>3
<1>19. Rowed(h, st.rows \o z, e)
  <2>1. /\ LinesBefore(h, k, "insert") \in SUBSET Nat /\ LinesBefore(h, k, "delete") \in SUBSET Nat
        /\ LinesBefore(h, e, "insert") = LinesBefore(h, k, "insert") \cup D
        /\ LinesBefore(h, e, "delete") = LinesBefore(h, k, "delete") \cup I
    BY <1>14, <1>16, <1>17
  <2> QED
    BY <1>1, <1>5, <1>12, <1>13, <1>18, <2>1, RowedConcat
<1>20. Breaks(h, st.rows \o z, e)
  <2>1. ASSUME e <= Len(h) PROVE OpOf(h[e]) = "equal"
    <3>1. e \in 1..Len(h) /\ OpOf(h[e]) # "insert"
      BY <1>1, <1>8, <1>9, <2>1
    <3>2. OpOf(h[e]) # "delete"
      <4>1. CASE e = d
        BY <1>1, <1>6, <3>1, <4>1
      <4>2. CASE e # d
        <5> DEFINE m == e - 1
        <5>1. m \in d..(e - 1) /\ m \in 1..(Len(h) - 1) /\ e = m + 1
          BY <1>1, <1>7, <1>8, <3>1, <4>2
        <5>2. OpOf(h[m]) = "insert"
          BY <1>8, <5>1
        <5> HIDE DEF m
        <5> QED
          BY <5>1, <5>2 DEF Fit
      <4> QED
        BY <4>1, <4>2
    <3> QED
      BY <3>1, <3>2 DEF Fit, Op
  <2>2. e \in Nat
    BY <1>1, <1>9
  <2> QED
    BY <1>1, <2>1, <2>2 DEF Breaks
<1>21. e \in 1..(Len(h) + 1) /\ e > n + 1
  BY <1>1, <1>2, <1>9
<1> QED
  BY <1>3, <1>4, <1>19, <1>20, <1>21 DEF LinedUp

LEMMA RowKeeps ==
  ASSUME NEW h, Fit(h), NEW n \in Nat, NEW st, LinedUp(h, st, n)
  PROVE  LinedUp(h, Row(h, st), n + 1)
<1>1. Len(h) \in Nat /\ st.next \in 1..(Len(h) + 1)
  BY LenProperties DEF Fit, LinedUp
<1>2. CASE st.next > Len(h)
  <2>1. Row(h, st) = st
    BY <1>2 DEF Row
  <2>2. st.next = Len(h) + 1
    BY <1>1, <1>2
  <2> QED
    BY <2>1, <2>2 DEF LinedUp
<1>3. CASE st.next <= Len(h) /\ OpOf(h[st.next]) = "equal"
  BY <1>3, RowEqual
<1>4. CASE st.next <= Len(h) /\ OpOf(h[st.next]) # "equal"
  BY <1>4, RowDiverges
<1> QED
  BY <1>1, <1>2, <1>3, <1>4

LEMMA NoRows ==
  ASSUME NEW h, Len(h) \in Nat
  PROVE  /\ [next |-> 1, rows |-> <<>>] \in RowStates
         /\ LinedUp(h, [next |-> 1, rows |-> <<>>], 0)
<1>1. /\ [next |-> 1, rows |-> <<>>] \in RowStates
      /\ <<>> \in Seq(RowSet) /\ DOMAIN <<>> = {}
  BY EmptySeq DEF RowStates
<1>2. ASSUME NEW other PROVE LinesBefore(h, 1, other) = {}
  <2>1. 1..(1 - 1) = {}
    OBVIOUS
  <2> QED
    BY <2>1 DEF LinesBefore
<1>3. ShowsOnce(OldColumn(<<>>), {}) /\ ShowsOnce(NewColumn(<<>>), {})
  <2>1. DOMAIN OldColumn(<<>>) = {} /\ DOMAIN NewColumn(<<>>) = {}
    BY <1>1 DEF OldColumn, NewColumn
  <2>2. ASSUME NEW c, DOMAIN c = {} PROVE ShowsOnce(c, {})
    BY <2>2 DEF ShowsOnce
  <2> QED
    BY <2>1, <2>2
<1>4. Tidy(<<>>)
  BY <1>1 DEF Tidy
<1>5. Rowed(h, <<>>, 1)
  BY <1>1, <1>2, <1>3, <1>4 DEF Rowed
<1>6. Breaks(h, <<>>, 1)
  BY DEF Breaks
<1> QED
  BY <1>1, <1>5, <1>6 DEF LinedUp

(* What sideRows has at the end of its loop.                               *)
LEMMA LoopRows ==
  ASSUME NEW h, Fit(h)
  PROVE  \E st : LinedUp(h, st, Len(h)) /\ SideRows(h) = st.rows
<1> DEFINE size == Len(h)
           D == 0..size
           start == [next |-> 1, rows |-> <<>>]
           Body(f, n) == IF n = 0 THEN start ELSE Row(h, f[n - 1])
           t == CHOOSE f : f = [n \in D |-> Body(f, n)]
           F == [n \in 1..size |-> [x \in RowStates |-> Row(h, x)]]
<1>1. SideRows(h) = t[size].rows
  BY DEF SideRows
<1>2. size \in Nat /\ h \in Seq(Nat)
  BY LenProperties DEF Fit
<1>3. start \in RowStates /\ LinedUp(h, start, 0)
  BY <1>2, NoRows
<1> HIDE DEF size
<1>4. ASSUME NEW n \in 1..size, NEW x \in RowStates PROVE F[n][x] = Row(h, x) /\ F[n][x] \in RowStates
  BY <1>2, RowType
<1> HIDE DEF F, start
<1>5. PICK f \in [D -> RowStates] : f[0] = start /\ \A n \in 1..size : f[n] = F[n][f[n - 1]]
  <2>1. Within(F, size, RowStates)
    BY <1>4 DEF Within
  <2>2. \E f \in [0..size -> RowStates] : Passes(f, start, size, F)
    BY <1>2, <1>3, <2>1, Recursion
  <2> QED
    BY <2>2 DEF Passes
<1>6. ASSUME NEW n \in D PROVE f[n] = Body(f, n)
  <2>1. CASE n = 0
    BY <1>5, <2>1
  <2>2. CASE n # 0
    <3>1. n \in 1..size /\ n - 1 \in D
      BY <1>2, <2>2
    <3>2. f[n - 1] \in RowStates
      BY <3>1
    <3> QED
      BY <1>4, <1>5, <2>2, <3>1, <3>2
  <2> QED
    BY <2>1, <2>2
<1>7. f = [n \in D |-> Body(f, n)]
  <2>1. f = [n \in D |-> f[n]]
    OBVIOUS
  <2> HIDE DEF Body, D
  <2> QED
    BY <1>6, <2>1
<1>8. t = [n \in D |-> Body(t, n)]
  <2> HIDE DEF Body, D
  <2> QED
    BY <1>7
<1> HIDE DEF t
<1>9. ASSUME NEW n \in D PROVE t[n] = Body(t, n)
  <2> HIDE DEF Body, D
  <2> QED
    BY <1>8
<1> DEFINE Bad == {n \in D : ~LinedUp(h, t[n], n)}
<1>10. Bad = {}
  <2> SUFFICES ASSUME Bad # {} PROVE FALSE
    OBVIOUS
  <2>1. Bad \in SUBSET Nat
    BY <1>2
  <2>2. PICK n \in Bad : \A q \in Bad : n <= q
    <3> HIDE DEF Bad
    <3> QED
      BY <2>1, LeastElement
  <2>3. n \in D /\ n \in Nat /\ ~LinedUp(h, t[n], n) /\ n \in Bad
    BY <2>1
  <2>4. CASE n = 0
    BY <1>3, <1>9, <2>3, <2>4
  <2>5. CASE n # 0
    <3> DEFINE q == n - 1
    <3>1. q \in D /\ ~(n <= q) /\ q \in Nat /\ n = q + 1
      BY <1>2, <2>3, <2>5
    <3>2. LinedUp(h, t[q], q)
      BY <2>2, <3>1
    <3>3. t[n] = Row(h, t[q])
      BY <1>9, <2>3, <2>5
    <3> HIDE DEF q
    <3>4. LinedUp(h, Row(h, t[q]), q + 1)
      BY <3>1, <3>2, RowKeeps
    <3> QED
      BY <2>3, <3>1, <3>3, <3>4
  <2> QED
    BY <2>4, <2>5
<1>11. LinedUp(h, t[size], size)
  <2>1. size \in D
    BY <1>2
  <2> QED
    BY <1>10, <2>1
<1> QED
  BY <1>1, <1>11 DEF size

LEMMA RowsShow ==
  ASSUME NEW h, Fit(h)
  PROVE  /\ ShowsOnce(OldColumn(SideRows(h)), Sided(h, "insert"))
         /\ ShowsOnce(NewColumn(SideRows(h)), Sided(h, "delete"))
         /\ Tidy(SideRows(h))
<1>1. PICK st : LinedUp(h, st, Len(h)) /\ SideRows(h) = st.rows
  BY LoopRows
<1>2. h \in Seq(Nat) /\ Len(h) \in Nat /\ DOMAIN h = 1..Len(h)
  BY LenProperties DEF Fit
<1>3. st.next = Len(h) + 1 /\ Rowed(h, st.rows, Len(h) + 1)
  BY <1>1, <1>2 DEF LinedUp
<1>4. ASSUME NEW other PROVE LinesBefore(h, Len(h) + 1, other) = Sided(h, other)
  <2>1. 1..((Len(h) + 1) - 1) = DOMAIN h
    BY <1>2
  <2> QED
    BY <2>1 DEF LinesBefore, Sided, Range
<1> QED
  BY <1>1, <1>3, <1>4 DEF Rowed

(* Hunks of a script are fit to be shown in rows.                          *)
LEMMA HunksAreFit ==
  ASSUME IInv, DeletesBeforeInserts, NEW h \in Range(Hunks)
  PROVE  Fit(h)
<1>1. lines \in Seq(Line) /\ edits \in Seq(Edit)
  BY DEF IInv, Typed
<1>2. /\ Len(lines) \in Nat /\ DOMAIN lines = 1..Len(lines) /\ Len(edits) \in Nat
      /\ Len(lines) <= Len(edits)
      /\ \A k \in 1..Len(lines) : OpOf(k) = edits[k].op
  <2>1. PICK o : \E n : Resolved(o, n)
    BY DEF IInv, ScriptInv
  <2>2. PICK n : Resolved(o, n)
    BY <2>1
  <2>3. /\ Len(lines) <= Len(edits)
        /\ \A k \in 1..Len(lines) :
             lines[k] = [op   |-> edits[k].op,
                         old  |-> IF edits[k].op = "insert" THEN NoAddr ELSE o[k - 1],
                         new  |-> IF edits[k].op = "delete" THEN NoAddr ELSE n[k - 1],
                         text |-> edits[k].text]
    BY <2>2 DEF Resolved
  <2>4. ASSUME NEW k \in 1..Len(lines) PROVE OpOf(k) = edits[k].op
    <3> DEFINE x == IF edits[k].op = "insert" THEN NoAddr ELSE o[k - 1]
               y == IF edits[k].op = "delete" THEN NoAddr ELSE n[k - 1]
    <3>1. lines[k] = [op |-> edits[k].op, old |-> x, new |-> y, text |-> edits[k].text]
      BY <2>3
    <3> HIDE DEF x, y
    <3> QED
      BY <3>1 DEF OpOf
  <2>5. Len(lines) \in Nat /\ DOMAIN lines = 1..Len(lines) /\ Len(edits) \in Nat
    BY <1>1, LenProperties
  <2>6. Len(lines) <= Len(edits)
    BY <2>3
  <2> QED
    BY <2>4, <2>5, <2>6
<1>3. \A k \in 1..Len(lines) : OpOf(k) \in Op
  <2>1. \A k \in 1..Len(lines) : lines[k] \in Line
    BY <1>1, ElementOfSeq
  <2> QED
    BY <2>1 DEF OpOf, Line
<1>4. \A k \in 1..(Len(lines) - 1) : ~(OpOf(k) = "insert" /\ OpOf(k + 1) = "delete")
  <2>1. \A k \in 1..(Len(lines) - 1) : k \in 1..Len(lines) /\ k + 1 \in 1..Len(lines) /\ k \in 1..(Len(edits) - 1)
    BY <1>2
  <2> QED
    BY <1>2, <2>1 DEF DeletesBeforeInserts
<1>5. PICK x \in 1..Len(Hunks) : h = Hunks[x]
  <2>1. DOMAIN Hunks = 1..Len(Hunks)
    BY <1>1, HunkFacts
  <2> QED
    BY <2>1 DEF Range
<1>6. Range(h) \subseteq 1..Len(lines) /\ \E g \in Nat : RunBefore(h, g)
  BY <1>1, <1>2, <1>5, HunkFacts DEF NearChange
<1>7. PICK g \in Nat : RunBefore(h, g)
  BY <1>6
<1>8. h \in Seq(Nat) /\ \A k \in 1..(Len(h) - 1) : h[k + 1] = h[k] + 1
  BY <1>7, RunBeforeFacts
<1>9. /\ Len(h) \in Nat \ {0} /\ DOMAIN h = 1..Len(h)
      /\ \A m \in 1..Len(h) : h[m] \in Nat
      /\ \A p \in 1..Len(h), q \in 1..Len(h) : p <= q <=> h[p] <= h[q]
  BY <1>7, RunAscends
<1>10. ASSUME NEW m \in 1..Len(h) PROVE h[m] \in 1..Len(lines)
  BY <1>6, <1>9 DEF Range
<1>11. ASSUME NEW m \in 1..Len(h), NEW q \in 1..Len(h), m < q PROVE h[m] < h[q]
  <2>1. ~(q <= m)
    BY <1>9, <1>11
  <2> QED
    BY <1>9, <2>1
<1>12. ASSUME NEW m \in 1..(Len(h) - 1), OpOf(h[m]) = "insert", OpOf(h[m + 1]) = "delete" PROVE FALSE
  <2>1. m \in 1..Len(h) /\ m + 1 \in 1..Len(h) /\ h[m + 1] = h[m] + 1
    BY <1>8, <1>9
  <2>2. h[m] \in 1..(Len(lines) - 1)
    BY <1>2, <1>10, <2>1
  <2> QED
    BY <1>4, <1>12, <2>1, <2>2
<1>13. \A m \in 1..Len(h) : h[m] # 0 /\ OpOf(h[m]) \in Op
  BY <1>2, <1>3, <1>10
<1> QED
  BY <1>8, <1>11, <1>12, <1>13 DEF Fit

(* report.go:374-376 and 409-412, for every script: each column shows its  *)
(* side once and in order, and no row of a divergence lacks a partner while*)
(* one on the other side lacks one too.                                    *)
THEOREM RowsAreComplete == Spec => []RowsShowEachSideOnce
<1>1. IInv /\ DeletesBeforeInserts => RowsShowEachSideOnce
  <2> SUFFICES ASSUME IInv, DeletesBeforeInserts, NEW h \in Range(Hunks)
               PROVE  LET rows == SideRows(h)
                      IN  /\ ShowsOnce([k \in DOMAIN rows |-> rows[k].old], Sided(h, "insert"))
                          /\ ShowsOnce([k \in DOMAIN rows |-> rows[k].new], Sided(h, "delete"))
                          /\ \A j, k \in DOMAIN rows :
                               j < k /\ Lone(rows[j]) /\ Lone(rows[k]) /\ Marker(rows[j]) # Marker(rows[k]) =>
                                 \E m \in j..k : Marker(rows[m]) = " "
    BY DEF RowsShowEachSideOnce
  <2>1. Fit(h)
    BY HunksAreFit
  <2>2. /\ ShowsOnce(OldColumn(SideRows(h)), Sided(h, "insert"))
        /\ ShowsOnce(NewColumn(SideRows(h)), Sided(h, "delete"))
        /\ Tidy(SideRows(h))
    BY <2>1, RowsShow
  <2> QED
    BY <2>2 DEF OldColumn, NewColumn, Tidy, Blank
<1> QED
  BY <1>1, ScriptInvariant, DeletesFirstEverywhere, PTL
=============================================================================
