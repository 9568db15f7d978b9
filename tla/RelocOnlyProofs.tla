-------------------------- MODULE RelocOnlyProofs --------------------------
(***************************************************************************)
(* For all symbol tables, addresses, words and lengths: where the walk and *)
(* NormalizeLines come to follow different registers, that RelocOnly does  *)
(* not contradict the lines as long as they follow the same, and that so   *)
(* it never does in runs without such a word.  First on the three paged    *)
(* architectures, whose walk is a specification of its own, then on all of *)
(* them.                                                                   *)
(***************************************************************************)
EXTENDS RelocOnly, TLAPS

LEMMA Descriptions ==
  ASSUME NEW x \in Arches
  PROVE  /\ Words[x] \subseteq Word
         /\ \A w \in Words[x] : Renders(w)
         /\ x.follows \subseteq Accesses
         /\ x.zero \in Reg /\ Reg \ {x.zero} \subseteq x.holds
         /\ x.links \in BOOLEAN /\ x.splitStore \in BOOLEAN
<1>1. /\ Words[x] \subseteq Word /\ x \in {ARM64, RISCV64, Loong64}
      /\ \A w \in Words[x] : Renders(w)
  BY WalkAssumption
<1>2. CASE x = ARM64
  BY <1>1, <1>2 DEF ARM64, Accesses, Reg
<1>3. CASE x = RISCV64
  BY <1>1, <1>3 DEF RISCV64, Accesses, Reg
<1>4. CASE x = Loong64
  BY <1>1, <1>4 DEF Loong64, Accesses, Reg
<1> QED
  BY <1>1, <1>2, <1>3, <1>4

(* reloc.go:346-350: two addresses are the same data exactly when the lines*)
(* show them the same way.                                                 *)
LEMMA SameDataIsSameOperand ==
  ASSUME NEW x, NEW y
  PROVE  sameData(x, y) <=> data("old", x) = data("new", y)
<1> DEFINE o == Lookup(Data["old"], x)
           w == Lookup(Data["new"], y)
<1>1. CASE dataMasked(o) \/ dataMasked(w)
  BY <1>1 DEF sameData, data, Mask, Ref
<1>2. CASE ~dataMasked(o) /\ ~dataMasked(w)
  <2>1. data("old", x) = Ref(Masks[o.name], x - o.base) /\ data("new", y) = Ref(Masks[w.name], y - w.base)
    BY <1>2 DEF data
  <2>2. sameData(x, y) <=> Masks[o.name] = Masks[w.name] /\ x - o.base = y - w.base
    BY <1>2 DEF sameData
  <2> QED
    BY <2>1, <2>2 DEF Ref
<1> QED
  BY <1>1, <1>2

(* Targets that agree are shown alike, if equal instructions are as far    *)
(* from the start on both sides.                                           *)
LEMMA AgreeingTargetsReadAlike ==
  ASSUME NEW equal, NEW x, NEW y, TargetsAgree(equal, x, y),
         equal => x - Start["old"] = y - Start["new"]
  PROVE  Destination("old", x) = Destination("new", y)
<1>1. CASE Within("old", x) \/ Within("new", y)
  BY <1>1 DEF TargetsAgree, Destination
<1>2. CASE ~Within("old", x) /\ ~Within("new", y)
  BY <1>2 DEF TargetsAgree, Destination, SameCallee
<1> QED
  BY <1>1, <1>2

(* Words that are taken for the same have lines that end alike.            *)
LEMMA LastsAgree ==
  ASSUME arch \in Arches, NEW o \in Words[arch], NEW w \in Words[arch],
         PagePair(o, w) \/ Accepted(o, w)
  PROVE  /\ o.op = w.op /\ o.last = w.last
         /\ o.op = "page" => PagePair(o, w) /\ o.last = o.rd
<1>1. /\ o \in Word /\ w \in Word /\ Renders(o) /\ Renders(w)
      /\ arch.follows \subseteq Accesses
  BY Descriptions
<1>2. CASE PagePair(o, w)
  BY <1>1, <1>2 DEF PagePair, Renders
<1>3. CASE CallPair(o, w)
  BY <1>1, <1>3 DEF CallPair, Renders
<1>4. CASE PlainPair(o, w)
  BY <1>1, <1>4 DEF PlainPair, PagePair, Renders
<1>5. CASE BasedPair(o, w)
  BY <1>1, <1>5 DEF BasedPair, Word, Accesses
<1> QED
  BY <1>2, <1>3, <1>4, <1>5 DEF Accepted

LEMMA CallsReadAlike ==
  ASSUME TypeOK, NEW o \in Words[arch], NEW w \in Words[arch],
         CallPair(o, w), CallAccepted(o, w)
  PROVE  Line("old", o) = Line("new", w)
<1>1. o \in Word /\ w \in Word /\ i \in Int /\ Start["old"] \in Int /\ Start["new"] \in Int
  BY Descriptions, WalkAssumption DEF TypeOK, Sides
<1>2. Destination("old", Target("old", o)) = Destination("new", Target("new", w))
  <2>1. o = w => Target("old", o) - Start["old"] = Target("new", w) - Start["new"]
    BY <1>1 DEF Target, PC, Word
  <2> QED
    BY <2>1, AgreeingTargetsReadAlike DEF CallAccepted
<1>3. /\ ImmediateInRd(o) = ImmediateInRd(w) /\ (~ImmediateInRd(o) => o.rd = w.rd)
      /\ ImmediateInRn(o) /\ ImmediateInRn(w)
  BY DEF CallPair, ImmediateInRd, ImmediateInRn
<1>4. o.last = w.last
  BY LastsAgree DEF TypeOK, Accepted
<1> QED
  BY <1>2, <1>3, <1>4 DEF Line, Operand, CallPair, Branches

LEMMA PlainWordsReadAlike ==
  ASSUME TypeOK, TrackingAgrees, NEW o \in Words[arch], At(o, o), ~PagePair(o, o), ~CallPair(o, o),
         o.rn \notin tracked
  PROVE  Line("old", o) = Line("new", o)
<1>1. o \in Word /\ i \in Int /\ Start["old"] \in Int /\ Start["new"] \in Int /\ WordCount \in Int
  BY Descriptions, WalkAssumption DEF TypeOK, Sides
<1>2. o.op \notin {"page", "call"}
  BY DEF PagePair, CallPair
<1>3. adrp["old"][o.rn] = NoPage /\ adrp["new"][o.rn] = NoPage
  BY <1>1 DEF TrackingAgrees, Sides, Word
<1>4. o.op = "cond" => Destination("old", Target("old", o)) = Destination("new", Target("new", o))
  <2> SUFFICES ASSUME o.op = "cond"
               PROVE  Destination("old", Target("old", o)) = Destination("new", Target("new", o))
    OBVIOUS
  <2>1. /\ Within("old", Target("old", o)) /\ Within("new", Target("new", o))
        /\ Target("old", o) - Start["old"] = Target("new", o) - Start["new"]
    BY <1>1 DEF At, Stays, Within, Target, PC, Word
  <2> QED
    BY <2>1 DEF Destination
<1> QED
  BY <1>2, <1>3, <1>4 DEF Line, Operand, Branches

LEMMA BasedWordsReadAlike ==
  ASSUME TypeOK, TrackingAgrees, NEW o \in Words[arch], NEW w \in Words[arch],
         BasedPair(o, w), BasedAccepted(o, w)
  PROVE  Line("old", o) = Line("new", w)
<1>1. o \in Word /\ w \in Word /\ o.op \in Accesses /\ o.rn \in tracked
  BY Descriptions DEF TypeOK, BasedPair
<1>2. /\ w.op = o.op /\ w.rn = o.rn /\ w.rest = o.rest /\ w.last = o.last
      /\ (o.op = "store" /\ arch.splitStore) \/ w.rd = o.rd
  BY <1>1 DEF BasedPair, Word
<1>3. \A s \in Sides : adrp[s][o.rn] = page[s][o.rn] /\ page[s][o.rn] # NoPage
  BY <1>1, WalkAssumption DEF TrackingAgrees, TypeOK, Word
<1>4. /\ Operand("old", o) = data("old", page["old"][o.rn] + Offset(o))
      /\ Operand("new", w) = data("new", page["new"][o.rn] + Offset(w))
  BY <1>1, <1>2, <1>3 DEF Operand, Accesses, Branches, Sides
<1>5. Operand("old", o) = Operand("new", w)
  BY <1>4, SameDataIsSameOperand DEF BasedAccepted
<1> QED
  BY <1>1, <1>2, <1>5 DEF Line, ImmediateInRd, ImmediateInRn, Accesses

-----------------------------------------------------------------------------
LEMMA AcceptedWordsReadAlike ==
  ASSUME TypeOK, TrackingAgrees, NEW o \in Words[arch], NEW w \in Words[arch],
         At(o, w), ~PagePair(o, w), Accepted(o, w)
  PROVE  Line("old", o) = Line("new", w)
<1>1. CASE CallPair(o, w) /\ CallAccepted(o, w)
  BY <1>1, CallsReadAlike
<1>2. CASE ~CallPair(o, w) /\ PlainPair(o, w)
  BY <1>2, PlainWordsReadAlike DEF PlainPair
<1>3. CASE BasedPair(o, w) /\ BasedAccepted(o, w)
  BY <1>3, BasedWordsReadAlike
<1> QED
  BY <1>1, <1>2, <1>3 DEF Accepted

LEMMA PageAddresses ==
  ASSUME TypeOK, NEW s \in Sides, NEW w \in Words[arch]
  PROVE  PageOf(s, w) \in Int
<1>1. w \in Word /\ w.imm \in Int /\ Start[s] \in Int /\ i \in Int
  BY Descriptions, WalkAssumption DEF TypeOK, Word
<1>2. PC(s) \in Int
  BY <1>1 DEF PC
<1> QED
  BY <1>1, <1>2 DEF PageOf, PageSize

(* The maps of both sides, after an assignment to one register.            *)
LEMMA Assignment ==
  ASSUME NEW V, NEW f \in [Sides -> [Reg -> V]], NEW r \in Reg, NEW v \in [Sides -> V], NEW g,
         g = [s \in Sides |-> [f[s] EXCEPT ![r] = v[s]]]
  PROVE  /\ g \in [Sides -> [Reg -> V]]
         /\ \A s \in Sides, x \in Reg : g[s][x] = IF x = r THEN v[s] ELSE f[s][x]
OBVIOUS

-----------------------------------------------------------------------------
(* What a page instruction leaves in both maps.                            *)
PageEffect(o, at) ==
  /\ \A s \in Sides, x \in Reg :
       adrp'[s][x] = IF x # o.rd THEN adrp[s][x]
                     ELSE IF o.rd \in arch.holds THEN at[s] ELSE NoPage
  /\ IF o.rd = arch.zero THEN UNCHANGED <<tracked, page>>
     ELSE /\ tracked' = tracked \cup {o.rd}
          /\ \A s \in Sides, x \in Reg :
               page'[s][x] = IF x # o.rd THEN page[s][x] ELSE at[s]

LEMMA PageStepEffect ==
  ASSUME TypeOK, NEW o \in Words[arch], NEW w \in Words[arch], PageStep(o, w)
  PROVE  /\ TypeOK' /\ UNCHANGED <<arch, verdict>>
         /\ o.op = "page" /\ o.rd \in Reg
         /\ same => same'
         /\ \E at \in [Sides -> Int] : PageEffect(o, at)
<1> DEFINE word(s) == IF s = "old" THEN o ELSE w
           at == [s \in Sides |-> PageOf(s, word(s))]
           held == [s \in Sides |-> IF o.rd \in arch.holds THEN at[s] ELSE NoPage]
<1>1. /\ verdict = "none" /\ i < WordCount /\ i' = i + 1 /\ verdict' = verdict /\ arch' = arch
      /\ o.op = "page" /\ w.op = "page" /\ o.rd = w.rd
      /\ same' = (same /\ Line("old", o) = Line("new", w))
      /\ adrp' = [s \in Sides |-> Materialize(s, word(s))]
  BY DEF PageStep, At, PagePair, Advance, NormalizeLines
<1>2. /\ o \in Word /\ w \in Word /\ o.rd \in Reg /\ WordCount \in Nat /\ arch \in Arches
      /\ o.last = o.rd /\ w.last = o.rd /\ NoReg \notin Reg
  BY <1>1, Descriptions, WalkAssumption DEF TypeOK, Word, Renders, Reg, NoReg
<1>3. at \in [Sides -> Int]
  BY PageAddresses
<1>4. /\ adrp' \in [Sides -> [Reg -> Int \cup {NoPage}]]
      /\ \A s \in Sides, x \in Reg : adrp'[s][x] = IF x = o.rd THEN held[s] ELSE adrp[s][x]
  <2>1. held \in [Sides -> Int \cup {NoPage}]
    BY <1>3
  <2>2. adrp' = [s \in Sides |-> [adrp[s] EXCEPT ![o.rd] = held[s]]]
    BY <1>1, <1>2 DEF Materialize
  <2>3. adrp \in [Sides -> [Reg -> Int \cup {NoPage}]]
    BY DEF TypeOK
  <2> HIDE DEF held
  <2> QED
    BY <1>2, <2>1, <2>2, <2>3, Assignment
<1>5. Line("old", o) = Line("new", w)
  BY <1>1, <1>2 DEF Line, Operand, ImmediateInRd, ImmediateInRn, Branches, Word
<1>6. CASE o.rd = arch.zero
  <2>1. UNCHANGED <<tracked, page>>
    BY <1>6 DEF PageStep
  <2>2. TypeOK'
    BY <1>1, <1>2, <1>4, <1>5, <2>1 DEF TypeOK
  <2>3. PageEffect(o, at)
    BY <1>4, <1>6, <2>1 DEF PageEffect
  <2> HIDE DEF at
  <2> QED
    BY <1>1, <1>2, <1>3, <1>5, <2>2, <2>3
<1>7. CASE o.rd # arch.zero
  <2>1. tracked' = tracked \cup {o.rd} /\ page' = [s \in Sides |-> [page[s] EXCEPT ![o.rd] = at[s]]]
    BY <1>7 DEF PageStep
  <2>2. /\ page' \in [Sides -> [Reg -> Int]]
        /\ \A s \in Sides, x \in Reg : page'[s][x] = IF x = o.rd THEN at[s] ELSE page[s][x]
    <3>1. page \in [Sides -> [Reg -> Int]]
      BY DEF TypeOK
    <3> HIDE DEF at
    <3> QED
      BY <1>2, <1>3, <2>1, <3>1, Assignment
  <2>3. TypeOK'
    BY <1>1, <1>2, <1>4, <1>5, <1>7, <2>1, <2>2 DEF TypeOK
  <2>4. PageEffect(o, at)
    BY <1>4, <1>7, <2>1, <2>2 DEF PageEffect
  <2> HIDE DEF at
  <2> QED
    BY <1>1, <1>2, <1>3, <1>5, <2>3, <2>4
<1> QED
  BY <1>6, <1>7

(* The walk forgets the register of the destination bits, NormalizeLines   *)
(* the one the line ends in.                                               *)
LEMMA WordStepEffect ==
  ASSUME TypeOK, NEW o \in Words[arch], NEW w \in Words[arch], WordStep(o, w)
  PROVE  /\ TypeOK' /\ UNCHANGED <<arch, verdict, page>>
         /\ o.op # "page" /\ o.rd \in Reg /\ o.last \in Reg \cup {NoReg}
         /\ tracked' = tracked \ {o.rd}
         /\ \A s \in Sides, x \in Reg : adrp'[s][x] = IF x = o.last THEN NoPage ELSE adrp[s][x]
         /\ same /\ TrackingAgrees => same'
<1> DEFINE word(s) == IF s = "old" THEN o ELSE w
<1>1. /\ verdict = "none" /\ i < WordCount /\ i' = i + 1 /\ UNCHANGED <<verdict, arch, page>>
      /\ tracked' = tracked \ {o.rd}
      /\ same' = (same /\ Line("old", o) = Line("new", w))
      /\ adrp' = [s \in Sides |-> Materialize(s, word(s))]
  BY DEF WordStep, At, Advance, NormalizeLines
<1>2. /\ o \in Word /\ w \in Word /\ o.rd \in Reg /\ WordCount \in Nat /\ arch \in Arches
      /\ o.last \in Reg \cup {NoReg} /\ NoReg \notin Reg
  BY Descriptions, WalkAssumption DEF TypeOK, Word, Reg, NoReg
<1>3. o.op = w.op /\ o.last = w.last /\ o.op # "page"
  BY <1>2, LastsAgree DEF WordStep
<1>4. TrackingAgrees => Line("old", o) = Line("new", w)
  BY AcceptedWordsReadAlike DEF WordStep
<1>5. /\ adrp' \in [Sides -> [Reg -> Int \cup {NoPage}]]
      /\ \A s \in Sides, x \in Reg : adrp'[s][x] = IF x = o.last THEN NoPage ELSE adrp[s][x]
  <2>1. adrp \in [Sides -> [Reg -> Int \cup {NoPage}]]
    BY DEF TypeOK
  <2>2. CASE o.last = NoReg
    <3>1. adrp' = [s \in Sides |-> adrp[s]]
      BY <1>1, <1>3, <2>2 DEF Materialize
    <3> QED
      BY <1>2, <2>1, <2>2, <3>1
  <2>3. CASE o.last # NoReg
    <3> DEFINE none == [s \in Sides |-> NoPage]
    <3>1. adrp' = [s \in Sides |-> [adrp[s] EXCEPT ![o.last] = none[s]]]
      BY <1>1, <1>3, <2>3 DEF Materialize
    <3>2. none \in [Sides -> Int \cup {NoPage}] /\ o.last \in Reg
      BY <1>2, <2>3
    <3>3. \A s \in Sides : none[s] = NoPage
      OBVIOUS
    <3> HIDE DEF none
    <3> QED
      BY <2>1, <3>1, <3>2, <3>3, Assignment
  <2> QED
    BY <2>2, <2>3
<1>6. TypeOK'
  BY <1>1, <1>2, <1>5 DEF TypeOK
<1> QED
  BY <1>1, <1>2, <1>3, <1>4, <1>5, <1>6

(* They go on following the same registers unless the word parts them.     *)
LEMMA PageStepMirrors ==
  ASSUME TypeOK, TrackingAgrees, NEW o \in Words[arch], NEW w \in Words[arch], PageStep(o, w)
  PROVE  TrackingAgrees' <=> ~Parts(o)
<1>1. arch \in Arches /\ tracked \subseteq Reg \ {arch.zero} /\ Reg \ {arch.zero} \subseteq arch.holds
  BY Descriptions DEF TypeOK
<1>0. PICK at \in [Sides -> Int] : PageEffect(o, at)
  BY PageStepEffect
<1>2. /\ \A s \in Sides, x \in Reg :
           adrp'[s][x] = IF x # o.rd THEN adrp[s][x]
                         ELSE IF o.rd \in arch.holds THEN at[s] ELSE NoPage
      /\ IF o.rd = arch.zero THEN UNCHANGED <<tracked, page>>
         ELSE /\ tracked' = tracked \cup {o.rd}
              /\ \A s \in Sides, x \in Reg :
                   page'[s][x] = IF x # o.rd THEN page[s][x] ELSE at[s]
  BY <1>0 DEF PageEffect
<1>3. o.op = "page" /\ o.rd \in Reg
  BY PageStepEffect
<1>4. CASE o.rd = arch.zero
  <2>1. UNCHANGED <<tracked, page>> /\ o.rd \notin tracked
    BY <1>1, <1>2, <1>4
  <2>2. CASE o.rd \in arch.holds
    <3>1. at["old"] # NoPage /\ "old" \in Sides
      BY WalkAssumption DEF Sides
    <3> QED
      BY <1>2, <1>3, <1>4, <2>1, <2>2, <3>1 DEF TrackingAgrees, Parts
  <2>3. CASE o.rd \notin arch.holds
    BY <1>2, <1>3, <2>1, <2>3 DEF TrackingAgrees, Parts
  <2> QED
    BY <2>2, <2>3
<1>5. CASE o.rd # arch.zero
  BY <1>1, <1>2, <1>3, <1>5 DEF TrackingAgrees, Parts
<1> QED
  BY <1>4, <1>5

LEMMA WordStepMirrors ==
  ASSUME TypeOK, TrackingAgrees, NEW o \in Words[arch], NEW w \in Words[arch], WordStep(o, w)
  PROVE  TrackingAgrees' <=> ~Parts(o)
<1>1. /\ o.op # "page" /\ o.rd \in Reg /\ o.last \in Reg \cup {NoReg}
      /\ tracked' = tracked \ {o.rd} /\ page' = page
      /\ \A s \in Sides, x \in Reg : adrp'[s][x] = IF x = o.last THEN NoPage ELSE adrp[s][x]
  BY WordStepEffect
<1>2. tracked \subseteq Reg /\ "old" \in Sides /\ NoReg \notin Reg
  BY DEF TypeOK, Sides, Reg, NoReg
<1>3. \A x \in Reg : page["old"][x] # NoPage
  <2>1. page["old"] \in [Reg -> Int]
    BY <1>2 DEF TypeOK
  <2>2. NoPage \notin Int
    BY WalkAssumption
  <2> QED
    BY <2>1, <2>2
<1>4. CASE ~Parts(o)
  BY <1>1, <1>2, <1>4 DEF TrackingAgrees, Parts
<1>5. CASE Parts(o) /\ o.rd \in tracked
  <2>1. o.rd \notin tracked' /\ adrp'["old"][o.rd] = page["old"][o.rd]
    BY <1>1, <1>2, <1>5 DEF TrackingAgrees, Parts
  <2> QED
    BY <1>1, <1>2, <1>3, <1>5, <2>1 DEF TrackingAgrees
<1>6. CASE Parts(o) /\ o.rd \notin tracked
  <2>1. o.last \in tracked' /\ o.last \in Reg /\ adrp'["old"][o.last] = NoPage
    BY <1>1, <1>2, <1>6 DEF Parts
  <2> QED
    BY <1>1, <1>2, <1>3, <1>6, <2>1 DEF TrackingAgrees
<1> QED
  BY <1>4, <1>5, <1>6

LEMMA InitTyped == Init => TypeOK /\ TrackingAgrees /\ same
BY Descriptions, WalkAssumption DEF Init, TypeOK, TrackingAgrees

LEMMA StepTyped == TypeOK /\ Next => TypeOK' /\ UNCHANGED arch
<1> SUFFICES ASSUME TypeOK, Next PROVE TypeOK' /\ UNCHANGED arch
  OBVIOUS
<1>1. ASSUME NEW o \in Words[arch], NEW w \in Words[arch], PageStep(o, w) PROVE TypeOK' /\ UNCHANGED arch
  BY <1>1, PageStepEffect
<1>2. ASSUME NEW o \in Words[arch], NEW w \in Words[arch], WordStep(o, w) PROVE TypeOK' /\ UNCHANGED arch
  BY <1>2, WordStepEffect
<1>3. ASSUME NEW o \in Words[arch], NEW w \in Words[arch], Reject(o, w) PROVE TypeOK' /\ UNCHANGED arch
  BY <1>3 DEF Reject, TypeOK
<1>4. ASSUME NEW equal \in BOOLEAN, LastBytes(equal) PROVE TypeOK' /\ UNCHANGED arch
  BY <1>4 DEF LastBytes, TypeOK
<1> QED
  BY <1>1, <1>2, <1>3, <1>4 DEF Next

LEMMA WalkTyped == Spec => []TypeOK
<1>1. TypeOK /\ [Next]_vars => TypeOK'
  BY StepTyped DEF vars, TypeOK
<1> QED
  BY InitTyped, <1>1, PTL DEF Spec

-----------------------------------------------------------------------------
LEMMA StepMirrors ==
  ASSUME TypeOK, TrackingAgrees, Next PROVE TrackingAgrees' <=> ~Parting
<1>1. ASSUME Parting PROVE ~TrackingAgrees'
  BY <1>1, PageStepMirrors, WordStepMirrors DEF Parting
<1>2. ASSUME ~Parting PROVE TrackingAgrees'
  <2>1. ASSUME NEW o \in Words[arch], NEW w \in Words[arch], PageStep(o, w) PROVE TrackingAgrees'
    BY <1>2, <2>1, PageStepMirrors DEF Parting
  <2>2. ASSUME NEW o \in Words[arch], NEW w \in Words[arch], WordStep(o, w) PROVE TrackingAgrees'
    BY <1>2, <2>2, WordStepMirrors DEF Parting
  <2>3. ASSUME NEW o \in Words[arch], NEW w \in Words[arch], Reject(o, w) PROVE TrackingAgrees'
    BY <2>3 DEF Reject, TrackingAgrees
  <2>4. ASSUME NEW equal \in BOOLEAN, LastBytes(equal) PROVE TrackingAgrees'
    BY <2>4 DEF LastBytes, TrackingAgrees
  <2> QED
    BY <2>1, <2>2, <2>3, <2>4 DEF Next
<1> QED
  BY <1>1, <1>2

(* reloc.go:190-193, for all words: as long as the walk and NormalizeLines *)
(* hold the same addresses in the same registers, the words that part them *)
(* are exactly those of Parts, which clear a page register in one of the   *)
(* two alone or give riscv64's zero register a page in NormalizeLines.     *)
THEOREM TrackingsPartOnlyThere ==
  Spec => [][TrackingAgrees => (TrackingAgrees' <=> ~Parting)]_vars
<1>1. TypeOK /\ [Next]_vars => [TrackingAgrees => (TrackingAgrees' <=> ~Parting)]_vars
  BY StepMirrors
<1> QED
  BY <1>1, WalkTyped, PTL DEF Spec

LEMMA StepReadsAlike ==
  ASSUME TypeOK, TrackingAgrees, Next, same, verdict' # "false" PROVE same'
<1>1. ASSUME NEW o \in Words[arch], NEW w \in Words[arch], PageStep(o, w) PROVE same'
  BY <1>1, PageStepEffect
<1>2. ASSUME NEW o \in Words[arch], NEW w \in Words[arch], WordStep(o, w) PROVE same'
  BY <1>2, WordStepEffect
<1>3. ASSUME NEW equal \in BOOLEAN, LastBytes(equal) PROVE same'
  BY <1>3 DEF LastBytes
<1> QED
  BY <1>1, <1>2, <1>3 DEF Next, Reject

(* reloc.go:45-49, for all words: of the lines of two bodies that the walk *)
(* has not rejected, the first that differ come where the two already      *)
(* follow different registers.                                             *)
THEOREM LinesDifferOnlyAfter ==
  Spec => [][same /\ ~same' /\ verdict' # "false" => ~TrackingAgrees]_vars
<1>1. TypeOK /\ [Next]_vars => [same /\ ~same' /\ verdict' # "false" => ~TrackingAgrees]_vars
  BY StepReadsAlike
<1> QED
  BY <1>1, WalkTyped, PTL DEF Spec

Inv == TypeOK /\ TrackingAgrees /\ (verdict # "false" => same)

LEMMA PagedStepKeeps ==
  ASSUME Inv, Next, ~Parting PROVE Inv' /\ arch' = arch
<1>1. TypeOK' /\ TrackingAgrees' /\ arch' = arch
  BY StepTyped, StepMirrors DEF Inv
<1>2. verdict # "false"
  BY DEF Next, PageStep, WordStep, Reject, LastBytes, At
<1> QED
  BY <1>1, <1>2, StepReadsAlike DEF Inv

(* reloc.go:45-49: in runs whose words never part the two, whatever words  *)
(* those are, a true result of RelocOnly is not contradicted by the lines. *)
THEOREM FastPathNeverContradicts ==
  Spec /\ [][~Parting]_vars => []NeverContradicts
<1>1. Inv /\ [Next]_vars /\ [~Parting]_vars => Inv'
  <2> SUFFICES ASSUME Inv, [Next]_vars, [~Parting]_vars PROVE Inv'
    OBVIOUS
  <2>1. CASE UNCHANGED vars
    BY <2>1 DEF vars, Inv, TypeOK, TrackingAgrees
  <2> QED
    BY <2>1, PagedStepKeeps
<1>2. Init => Inv
  BY InitTyped DEF Inv
<1>3. Inv => NeverContradicts
  BY DEF Inv, NeverContradicts
<1> QED
  BY <1>1, <1>2, <1>3, PTL DEF Spec

-----------------------------------------------------------------------------
(* The other walks keep no state between instructions.                     *)
FlatInv == /\ off \in Nat
           /\ verdict # "false" => same
           /\ arch = ARM => oldCode \in Bodies /\ \E k \in Nat : off = 4 * k

WholeInv == /\ arch \in Arches \cup FlatArches
            /\ arch \in Arches => Inv
            /\ arch \in FlatArches => FlatInv

LEMMA FlatDescriptions ==
  ASSUME NEW x \in FlatArches
  PROVE  /\ x \notin Arches
         /\ \A in \in Insts[x] : /\ in \in Inst
                                 /\ x = ARM => in.len = 4 /\ Len(in.args) <= 1
                                 /\ Has(in, "word") => x = ARM /\ in.op = "WORD"
                                 /\ Has(in, "rip") => x = AMD64
         /\ x.walk = "arm" <=> x = ARM
<1>1. /\ x \notin Arches /\ x \in {AMD64, I386, ARM, Other}
      /\ \A in \in Insts[x] : /\ in \in Inst
                              /\ x = ARM => in.len = 4 /\ Len(in.args) <= 1
                              /\ Has(in, "word") => x = ARM /\ in.op = "WORD"
                              /\ Has(in, "rip") => x = AMD64
  BY FlatAssumption
<1>2. x.walk = "arm" <=> x = ARM
  <2>1. AMD64.walk = "x86" /\ I386.walk = "x86" /\ ARM.walk = "arm" /\ Other.walk = "none"
    BY DEF AMD64, I386, ARM, Other
  <2> QED
    BY <1>1, <2>1
<1> QED
  BY <1>1, <1>2

(* relocx86.go:86-100: a text symbol on either side decides, else data do. *)
LEMMA ReferencesReadAlike ==
  ASSUME NEW x, NEW y, SameReference(x, y)
  PROVE  Reference("old", x) = Reference("new", y)
<1>1. CASE Lookup(Funcs["old"], x).name # NoName \/ Lookup(Funcs["new"], y).name # NoName
  BY <1>1 DEF SameReference, SameCallee, Reference
<1>2. CASE ~(Lookup(Funcs["old"], x).name # NoName \/ Lookup(Funcs["new"], y).name # NoName)
  BY <1>2, SameDataIsSameOperand DEF SameReference, Reference
<1> QED
  BY <1>1, <1>2

(* An accepted argument of instructions of one length is shown alike.      *)
LEMMA ArgsReadAlike ==
  ASSUME off \in Nat, NEW o \in Inst, NEW w \in Inst, o.len = w.len,
         NEW a \in Arg, NEW b \in Arg, ArgAccepted(o, w, a, b),
         a.kind # "word",
         a.kind = "imm" => Constant("old", a.n) = Constant("new", a.n)
  PROVE  a.rest = b.rest /\ Shown("old", o, a) = Shown("new", w, b)
<1> DEFINE x == Reached("old", o, a)
           y == Reached("new", w, b)
<1>1. CASE a.kind = "rel" /\ b.kind = "rel"
  <2>1. TargetsAgree(a = b, x, y)
    BY <1>1 DEF ArgAccepted
  <2>2. a = b => x - Start["old"] = y - Start["new"]
    <3>1. Start["old"] \in Int /\ Start["new"] \in Int
      BY WalkAssumption DEF Sides
    <3> QED
      BY <3>1 DEF Reached, Inst, Arg
  <2>3. Destination("old", x) = Destination("new", y)
    BY <2>1, <2>2, AgreeingTargetsReadAlike
  <2>4. Shown("old", o, a) = Destination("old", x) /\ Shown("new", w, b) = Destination("new", y)
    BY <1>1 DEF Shown
  <2> QED
    BY <1>1, <2>3, <2>4 DEF Arg
<1>2. CASE a.kind = "rip" /\ b.kind = "rip"
  <2>1. a.rest = b.rest /\ SameReference(x, y)
    BY <1>2 DEF ArgAccepted
  <2>2. Shown("old", o, a) = Reference("old", x) /\ Shown("new", w, b) = Reference("new", y)
    BY <1>2 DEF Shown
  <2> QED
    BY <2>1, <2>2, ReferencesReadAlike
<1>3. CASE ~(a.kind = "rel" /\ b.kind = "rel") /\ ~(a.kind = "rip" /\ b.kind = "rip")
  <2>1. a = b /\ a.kind \in {"load", "imm", "kept"}
    BY <1>3 DEF ArgAccepted, Arg, Kind
  <2>2. CASE a.kind = "imm"
    BY <2>1, <2>2 DEF Shown
  <2>3. CASE a.kind \in {"load", "kept"}
    BY <2>1, <2>3 DEF Shown
  <2> QED
    BY <2>1, <2>2, <2>3
<1> QED
  BY <1>1, <1>2, <1>3

LEMMA InstsReadAlike ==
  ASSUME off \in Nat, NEW o \in Inst, NEW w \in Inst,
         o.op = w.op, o.len = w.len, Len(o.args) = Len(w.args),
         \A k \in DOMAIN o.args :
           /\ ArgAccepted(o, w, o.args[k], w.args[k])
           /\ o.args[k].kind # "word"
           /\ o.args[k].kind = "imm" => Constant("old", o.args[k].n) = Constant("new", o.args[k].n)
  PROVE  FlatLine("old", o) = FlatLine("new", w)
<1>1. o.args \in Seq(Arg) /\ w.args \in Seq(Arg)
  BY DEF Inst
<1>2. DOMAIN o.args = DOMAIN w.args
  BY <1>1
<1>3. \A k \in DOMAIN o.args : o.args[k] \in Arg /\ w.args[k] \in Arg
  BY <1>1, <1>2
<1>4. \A k \in DOMAIN o.args :
        /\ o.args[k].rest = w.args[k].rest
        /\ Shown("old", o, o.args[k]) = Shown("new", w, w.args[k])
  BY <1>3, ArgsReadAlike
<1> QED
  BY <1>2, <1>4 DEF FlatLine

(* What resolves is an address of the binary.                              *)
LEMMA DataAreAddresses ==
  ASSUME NEW s \in Sides, NEW x \in Int, ~dataMasked(Lookup(Data[s], x))
  PROVE  x \in Contains[s]
<1>1. Lookup(Data[s], x).name # NoName
  BY DEF dataMasked
<1>2. PICK sym \in Data[s] : Holds(sym, x)
  BY <1>1 DEF Lookup
<1>3. sym \in Symbol /\ sym.base..sym.base + sym.size - 1 \subseteq Contains[s]
  BY FlatAssumption
<1> QED
  BY <1>2, <1>3 DEF Holds, Symbol

(* relocarm.go:32-50: what differs in a pool and is accepted resolves alike*)
LEMMA PoolWordsReadAlike ==
  ASSUME NEW x \in Int, NEW y \in Int, PoolAccepted(x, y),
         x = y => Constant("old", x) = Constant("new", x)
  PROVE  Constant("old", x) = Constant("new", y)
<1>1. data("old", x) = data("new", y)
  BY SameDataIsSameOperand DEF PoolAccepted
<1>2. CASE x = y
  BY <1>2
<1>3. CASE x # y
  BY <1>1, <1>3, DataAreAddresses DEF PoolAccepted, Constant, Sides
<1> QED
  BY <1>2, <1>3

(* What Misread excludes of a step.                                        *)
SharedReadAlike(o, w) ==
  \A k \in DOMAIN o.args :
    o.args[k] = w.args[k] /\ o.args[k].kind \in {"imm", "word"}
      => Constant("old", o.args[k].n) = Constant("new", o.args[k].n)

LEMMA X86ReadsAlike ==
  ASSUME FlatInv, arch \in FlatArches, arch # ARM,
         NEW o \in Insts[arch], NEW w \in Insts[arch], FlatAccepted(o, w), SharedReadAlike(o, w)
  PROVE  o.len = w.len /\ FlatLine("old", o) = FlatLine("new", w)
<1>1. o \in Inst /\ w \in Inst /\ ~Has(o, "word") /\ InstAccepted(o, w) /\ off \in Nat
  BY FlatDescriptions DEF FlatAccepted, FlatInv
<1>2. \A k \in DOMAIN o.args : o.args[k].kind # "word"
  BY <1>1 DEF Has
<1>3. \A k \in DOMAIN o.args : o.args[k].kind = "imm" =>
        Constant("old", o.args[k].n) = Constant("new", o.args[k].n)
  BY <1>1 DEF SharedReadAlike, InstAccepted, ArgAccepted
<1> QED
  BY <1>1, <1>2, <1>3, InstsReadAlike DEF InstAccepted

(* The word at off is a pool word exactly when the pool says so.           *)
LEMMA ArmPoolIsData ==
  ASSUME FlatInv, arch = ARM, arch \in FlatArches,
         NEW o \in Insts[arch], NEW w \in Insts[arch], FlatAt(o, w)
  PROVE  Has(o, "word") <=> off \in armPool(oldCode)
<1>1. o.len = 4 /\ arch.walk = "arm"
  BY FlatDescriptions
<1>2. PICK k \in Nat : off = 4 * k
  BY DEF FlatInv
<1>3. k + 1 \in 1..WordCount /\ off \div 4 + 1 = k + 1
  BY <1>1, <1>2, WalkAssumption DEF FlatAt, Size
<1>4. Has(oldCode[k + 1], "word") <=> 4 * (k + 1 - 1) \in armPool(oldCode)
  BY <1>3 DEF FlatInv, Bodies
<1>5. o = oldCode[k + 1] /\ 4 * (k + 1 - 1) = off
  BY <1>1, <1>2, <1>3 DEF FlatAt
<1> QED
  BY <1>4, <1>5

LEMMA OneArgument ==
  ASSUME NEW x, x.args \in Seq(Arg), Len(x.args) <= 1, NEW kind \in Kind, Has(x, kind)
  PROVE  Len(x.args) = 1 /\ x.args[1].kind = kind
<1>1. PICK k \in DOMAIN x.args : x.args[k].kind = kind
  BY DEF Has
<1>2. DOMAIN x.args = 1..Len(x.args) /\ Len(x.args) \in Nat
  OBVIOUS
<1>3. Len(x.args) = 1 /\ k = 1
  <2> DEFINE n == Len(x.args)
  <2>1. n \in Nat /\ n <= 1 /\ k \in 1..n
    BY <1>2
  <2> HIDE DEF n
  <2>2. n = 1 /\ k = 1
    BY <2>1
  <2> QED
    BY <2>2 DEF n
<1> QED
  BY <1>1, <1>3

LEMMA ArmReadsAlike ==
  ASSUME FlatInv, arch = ARM, arch \in FlatArches,
         NEW o \in Insts[arch], NEW w \in Insts[arch], FlatAt(o, w), FlatAccepted(o, w),
         SharedReadAlike(o, w)
  PROVE  FlatLine("old", o) = FlatLine("new", w)
<1>1. /\ o \in Inst /\ w \in Inst /\ o.len = w.len /\ Len(o.args) <= 1 /\ Len(w.args) <= 1
      /\ ~Has(o, "rip") /\ arch.walk = "arm" /\ off \in Nat
      /\ Has(o, "word") => o.op = "WORD" /\ Has(w, "word") /\ w.op = "WORD"
  <2>1. ARM # AMD64
    BY DEF ARM, AMD64
  <2> QED
    BY <2>1, FlatDescriptions DEF FlatInv, FlatAt
<1>2. o.args \in Seq(Arg) /\ w.args \in Seq(Arg)
  BY <1>1 DEF Inst
<1>3. ArmAccepted(o, w)
  BY <1>1 DEF FlatAccepted
<1>4. \A kind \in Kind : /\ Has(o, kind) => Len(o.args) = 1 /\ o.args[1].kind = kind
                         /\ Has(w, kind) => Len(w.args) = 1 /\ w.args[1].kind = kind
  BY <1>1, <1>2, OneArgument
<1>5. CASE off \in armPool(oldCode)
  <2> DEFINE x == o.args[1].n
             y == w.args[1].n
  <2>1. Has(o, "word")
    BY <1>5, ArmPoolIsData
  <2>2. /\ DOMAIN o.args = {1} /\ DOMAIN w.args = {1}
        /\ o.args[1].kind = "word" /\ w.args[1].kind = "word" /\ o.op = w.op
        /\ o.args[1] \in Arg /\ w.args[1] \in Arg
    BY <1>1, <1>2, <1>4, <2>1 DEF Kind
  <2>3. PoolAccepted(x, y) /\ x \in Int /\ y \in Int
    BY <1>3, <1>5, <2>2 DEF ArmAccepted, Arg
  <2>4. x = y => Constant("old", x) = Constant("new", x)
    <3>1. o.args[1].rest = 0 /\ w.args[1].rest = 0
      BY <2>2 DEF Arg
    <3>2. x = y => o.args[1] = w.args[1]
      BY <2>2, <3>1 DEF Arg
    <3> QED
      BY <2>2, <3>2 DEF SharedReadAlike
  <2>5. Constant("old", x) = Constant("new", y)
    BY <2>3, <2>4, PoolWordsReadAlike
  <2>6. Shown("old", o, o.args[1]) = Constant("old", x) /\ Shown("new", w, w.args[1]) = Constant("new", y)
    BY <2>2 DEF Shown
  <2>7. o.args[1].rest = w.args[1].rest
    BY <2>2 DEF Arg
  <2> QED
    BY <2>2, <2>5, <2>6, <2>7 DEF FlatLine
<1>6. CASE off \notin armPool(oldCode)
  <2>1. ~Has(o, "word")
    BY <1>6, ArmPoolIsData
  <2>2. \A k \in DOMAIN o.args : o.args[k].kind \notin {"word", "rip"}
    BY <1>1, <2>1 DEF Has
  <2>4. CASE ArmBranches(o, w)
    <3>1. o.op = w.op /\ Len(o.args) = 1 /\ Len(w.args) = 1 /\ DOMAIN o.args = {1}
      BY <1>2, <1>4, <2>4 DEF ArmBranches, Kind
    <3>2. ArgAccepted(o, w, o.args[1], w.args[1])
      BY <1>3, <1>6, <2>4 DEF ArmAccepted
    <3>3. o.args[1].kind # "imm"
      BY <1>4, <2>4 DEF ArmBranches, Kind
    <3> QED
      BY <1>1, <2>2, <3>1, <3>2, <3>3, InstsReadAlike
  <2>5. CASE ~ArmBranches(o, w)
    <3>1. o = w
      BY <1>3, <1>6, <2>5 DEF ArmAccepted
    <3>2. \A k \in DOMAIN o.args : o.args[k].kind # "rel"
      BY <2>5, <3>1 DEF ArmBranches, Has
    <3>3. \A k \in DOMAIN o.args : ArgAccepted(o, w, o.args[k], w.args[k])
      BY <2>2, <3>1, <3>2 DEF ArgAccepted
    <3>4. \A k \in DOMAIN o.args : o.args[k].kind = "imm" =>
            Constant("old", o.args[k].n) = Constant("new", o.args[k].n)
      BY <3>1 DEF SharedReadAlike
    <3> QED
      BY <1>1, <2>2, <3>1, <3>3, <3>4, InstsReadAlike
  <2> QED
    BY <2>4, <2>5
<1> QED
  BY <1>5, <1>6

-----------------------------------------------------------------------------
LEMMA FlatWalkKeeps ==
  ASSUME FlatInv, FlatWalk, ~Misread PROVE FlatInv'
<1>1. arch \in FlatArches
  BY DEF FlatWalk
<1>2. ASSUME NEW o \in Insts[arch], NEW w \in Insts[arch], InstStep(o, w) PROVE FlatInv'
  <2>0. SharedReadAlike(o, w)
    BY <1>2 DEF Misread, SharedReadAlike
  <2>1. o.len = w.len /\ FlatLine("old", o) = FlatLine("new", w)
    <3>1. CASE arch = ARM
      <4>1. o.len = w.len
        BY <1>1, <3>1, FlatDescriptions
      <4> QED
        BY <1>1, <1>2, <2>0, <3>1, <4>1, ArmReadsAlike DEF InstStep
    <3>2. CASE arch # ARM
      BY <1>1, <1>2, <2>0, <3>2, X86ReadsAlike DEF InstStep
    <3> QED
      BY <3>1, <3>2
  <2>2. /\ off' = off + o.len /\ UNCHANGED <<arch, verdict, oldCode>>
        /\ same'
    BY <1>2, <2>1 DEF InstStep, FlatAt, FlatInv
  <2>3. o.len \in Nat /\ (arch = ARM => o.len = 4)
    BY <1>1, FlatDescriptions DEF Inst
  <2>4. ASSUME arch = ARM PROVE \E k \in Nat : off' = 4 * k
    <3>1. PICK k \in Nat : off = 4 * k
      BY <2>4 DEF FlatInv
    <3>2. off' = 4 * (k + 1)
      BY <2>2, <2>3, <2>4, <3>1
    <3> QED
      BY <3>2
  <2> QED
    BY <2>2, <2>3, <2>4 DEF FlatInv, Bodies, armPool, Has
<1>3. ASSUME NEW o \in Insts[arch], NEW w \in Insts[arch], FlatReject(o, w) PROVE FlatInv'
  BY <1>3 DEF FlatReject, flatVars, FlatInv
<1>4. CASE Undecodable
  BY <1>4 DEF Undecodable, flatVars, FlatInv
<1>5. ASSUME NEW equal \in BOOLEAN, FlatEnd(equal) PROVE FlatInv'
  BY <1>5 DEF FlatEnd, flatVars, FlatInv
<1> QED
  BY <1>2, <1>3, <1>4, <1>5 DEF FlatWalk

LEMMA RelocOnlyInitInv == RelocOnlyInit => WholeInv
<1> SUFFICES ASSUME RelocOnlyInit PROVE WholeInv
  OBVIOUS
<1>1. CASE Init
  <2>1. arch \in Arches /\ Inv
    BY <1>1, InitTyped DEF Init, Inv
  <2> QED
    BY <2>1, FlatDescriptions DEF WholeInv
<1>2. CASE ~Init
  <2>1. arch \in FlatArches /\ verdict = "none" /\ same = TRUE /\ off = 0
        /\ (arch = ARM => oldCode \in Bodies)
    BY <1>2 DEF RelocOnlyInit
  <2>2. FlatInv
    <3>1. off = 4 * 0
      BY <2>1
    <3> QED
      BY <2>1, <3>1 DEF FlatInv
  <2> QED
    BY <2>1, <2>2, FlatDescriptions DEF WholeInv
<1> QED
  BY <1>1, <1>2

(* reloc.go:45-54, for all architectures, words and instructions: in runs  *)
(* where no word parts the walk from NormalizeLines and no constant that   *)
(* both bodies share is shown in two ways, a true result of RelocOnly is   *)
(* not contradicted by the normalised lines.                               *)
THEOREM RelocOnlyNeverContradicts ==
  RelocOnlySpec /\ [][~Parting /\ ~Misread]_allVars => []NeverContradicts
<1>1. WholeInv /\ [RelocOnlyNext]_allVars /\ [~Parting /\ ~Misread]_allVars => WholeInv'
  <2> SUFFICES ASSUME WholeInv, [RelocOnlyNext]_allVars, [~Parting /\ ~Misread]_allVars
               PROVE  WholeInv'
    OBVIOUS
  <2>1. CASE UNCHANGED allVars
    BY <2>1 DEF allVars, vars, flatVars, WholeInv, FlatInv, Inv, TypeOK, TrackingAgrees
  <2>2. ASSUME NEW lengthsDiffer \in BOOLEAN, Decline(lengthsDiffer) PROVE WholeInv'
    <3>1. verdict' = "false" /\ UNCHANGED <<arch, i, tracked, page, adrp, same, off, oldCode>>
      BY <2>2 DEF Decline, flat, flatVars
    <3> QED
      BY <3>1 DEF WholeInv, FlatInv, Inv, TypeOK, TrackingAgrees
  <2>3. CASE PagedWalk /\ ~Parting
    <3>1. Inv' /\ arch' = arch /\ arch \in Arches
      BY <2>3, PagedStepKeeps DEF PagedWalk, WholeInv
    <3> QED
      BY <3>1, FlatDescriptions DEF WholeInv
  <2>4. CASE FlatWalk /\ ~Misread
    <3>1. FlatInv' /\ arch \in FlatArches
      BY <2>4, FlatWalkKeeps DEF WholeInv, FlatWalk
    <3>2. arch' = arch
      BY <2>4 DEF FlatWalk, InstStep, FlatReject, Undecodable, FlatEnd
    <3> QED
      BY <3>1, <3>2, FlatDescriptions DEF WholeInv
  <2> QED
    BY <2>1, <2>2, <2>3, <2>4 DEF RelocOnlyNext
<1>2. WholeInv => NeverContradicts
  BY DEF WholeInv, Inv, FlatInv, NeverContradicts
<1> QED
  BY <1>1, <1>2, RelocOnlyInitInv, PTL DEF RelocOnlySpec
=============================================================================
