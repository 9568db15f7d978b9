----------------------------- MODULE RelocWalk -----------------------------
(***************************************************************************)
(* norm.RelocOnly on arm64, riscv64 and loong64 (src/internal/norm/        *)
(* reloc.go): two bodies of the same length are walked word by word, and a *)
(* difference is accepted only where relocation may have put it.  The same *)
(* words go, side by side, through the rules of norm.NormalizeLines that   *)
(* the walk stands in for, so that the two verdicts can be compared.       *)
(* The words of a body are chosen as the walk reaches them.                *)
(***************************************************************************)
EXTENDS Integers

CONSTANTS Arches,     \* descriptions of architectures, of the three below
          Words,        \* the words a body may hold, for each of Arches
          WordCount,    \* len(oldCode) / 4, which is len(newCode) / 4
          Start,        \* the address of the function, for each side
          Funcs, Data,  \* the symbols of each side
          Masks,        \* maskGenNumber, on names
          Untrusted,    \* section markers and go:func names
          NoName,       \* ""
          NoPage        \* absence from the adrp map

Sides == {"old", "new"}
Reg == 0..31
PageSize == 4096
bigDataSym == 4096

(* A word is an operation and five fields: the five bits where a           *)
(* destination would be, the five where a base register would be, an       *)
(* immediate, the rest, which for an arm64 load or store is its size, and  *)
(* the register its line ends in, if it ends in one.                       *)
(* "call": B, BL, JAL.  "cond": a conditional branch.  "wide": a load or   *)
(* store of a floating-point register or of a pair of registers.           *)
Op == {"page", "call", "cond", "add", "load", "store", "wide", "other"}
NoReg == 32
Word == {w \in [op : Op, rd : Reg, rn : Reg, imm : Int, rest : Nat, last : Reg \cup {NoReg}] :
           w.op = "page" => w.rest = 0}

(* The three walks are one walk with small differences: which register is  *)
(* wired to zero, whose accesses through a page register they follow,      *)
(* whether immediates are scaled, whether a call names a link register,    *)
(* whether the destination bits of a store belong to its immediate, whether*)
(* the pc counts by its page; and the page registers NormalizeLines knows. *)
ARM64 == [zero |-> 31, follows |-> {"add", "load", "store"}, scaled |-> TRUE,
          links |-> FALSE, splitStore |-> FALSE, pagedPC |-> TRUE, holds |-> Reg \ {31}]
RISCV64 == [zero |-> 0, follows |-> {"add", "load", "store"}, scaled |-> FALSE,
            links |-> TRUE, splitStore |-> TRUE, pagedPC |-> FALSE, holds |-> Reg]
Loong64 == [zero |-> 0, follows |-> {"add", "load", "store", "wide"}, scaled |-> FALSE,
            links |-> FALSE, splitStore |-> FALSE, pagedPC |-> TRUE, holds |-> Reg \ {0}]

(* The register fields: of some words they hold bits of the immediate.     *)
Bits(n, from) == (n \div 2 ^ from) % 32

RdField(x, op, imm, r) ==
  CASE op = "call" /\ x = ARM64 -> Bits(imm, 0)
    [] op = "call" /\ x = Loong64 -> Bits(imm, 16)
    [] op = "cond" /\ x = RISCV64 -> 4 * (imm % 8) + ((imm \div 512) % 2)
    [] op = "store" /\ x = RISCV64 -> Bits(imm, 0)
    [] OTHER -> r

RnField(x, op, imm, r) ==
  CASE op = "call" -> Bits(imm, CASE x = ARM64 -> 5 [] x = RISCV64 -> 13 [] x = Loong64 -> 21)
    [] op = "cond" /\ x = ARM64 -> Bits(imm, 0)
    [] op = "page" -> Bits(imm, CASE x = ARM64 -> 2 [] x = RISCV64 -> 3 [] x = Loong64 -> 0)
    [] OTHER -> r

Encodes(x, w) == /\ w.rd = RdField(x, w.op, w.imm, w.rd)
                 /\ w.rn = RnField(x, w.op, w.imm, w.rn)

(* Lines end in the destination of a page instruction, an addition or a    *)
(* load, but for NOP and prefetches; in no register the map could hold for *)
(* a branch, a store or a wide access; in any for the others: STXR ends in *)
(* its status, CMP in its first source.                                    *)
Renders(w) ==
  CASE w.op = "page" -> w.last = w.rd
    [] w.op \in {"add", "load"} -> w.last \in {w.rd, NoReg}
    [] w.op = "other" -> TRUE
    [] OTHER -> w.last = NoReg

Name == DOMAIN Masks
Symbol == [name : Name, base : Nat, size : Nat]

ASSUME WalkAssumption == /\ Arches \subseteq {ARM64, RISCV64, Loong64}
                         /\ WordCount \in Nat
                         /\ \A x \in Arches : Words[x] \subseteq {w \in Word : Encodes(x, w) /\ Renders(w)}
                         /\ \A s \in Sides : Start[s] \in Nat
                         /\ NoName \notin Name
                         /\ NoPage \notin Int

VARIABLES arch,    \* the case of RelocOnly's switch
          i,       \* words walked
          tracked, \* registers the walk knows to hold a page address
          page,    \* those addresses, per side
          verdict, \* what RelocOnly returned, or "none" so far
          adrp,    \* NormalizeLines' map from registers to addresses, per side
          same     \* the lines of the two sides are equal so far

vars == <<arch, i, tracked, page, verdict, adrp, same>>

-----------------------------------------------------------------------------
(* Lookups: the symbol that holds an address.                              *)
Holds(sym, x) == sym.base <= x /\ x < sym.base + sym.size
Lookup(table, x) == IF \E sym \in table : Holds(sym, x)
                    THEN CHOOSE sym \in table : Holds(sym, x)
                    ELSE [name |-> NoName, base |-> 0, size |-> 0]

dataMasked(sym) == sym.name = NoName \/ sym.size > bigDataSym \/ sym.name \in Untrusted

sameData(x, y) ==
  LET o == Lookup(Data["old"], x)
      w == Lookup(Data["new"], y)
  IN  IF dataMasked(o) \/ dataMasked(w) THEN dataMasked(o) = dataMasked(w)
      ELSE Masks[o.name] = Masks[w.name] /\ x - o.base = y - w.base

PC(s) == Start[s] + 4 * i
PageOf(s, w) == (IF arch.pagedPC THEN PC(s) - (PC(s) % PageSize) ELSE PC(s)) + w.imm * PageSize
Target(s, w) == PC(s) + 4 * w.imm
Within(s, x) == Start[s] <= x /\ x < Start[s] + 4 * WordCount
Offset(w) == w.imm * (IF arch.scaled /\ w.op \in {"load", "store"} THEN 2 ^ w.rest ELSE 1)

-----------------------------------------------------------------------------
(* The operand of a line, per side: a reference that resolves reads        *)
(* symbol+offset, one that does not is masked, anything else is kept.      *)
Kept(n) == [kind |-> "kept", name |-> NoName, off |-> n]
Label(n) == [kind |-> "label", name |-> NoName, off |-> n]
Mask == [kind |-> "masked", name |-> NoName, off |-> 0]
Ref(name, n) == [kind |-> "symbol", name |-> name, off |-> n]

data(s, x) == LET sym == Lookup(Data[s], x)
              IN  IF dataMasked(sym) THEN Mask ELSE Ref(Masks[sym.name], x - sym.base)

Destination(s, x) ==
  LET sym == Lookup(Funcs[s], x)
  IN  IF Within(s, x) THEN Label(x - Start[s])
      ELSE IF sym.name = NoName THEN Mask ELSE Ref(sym.name, x - sym.base)

Branches == {"call", "cond"}
Accesses == {"add", "load", "store", "wide"}

Operand(s, w) ==
  IF w.op = "page" THEN Mask
  ELSE IF w.op \in Branches THEN Destination(s, Target(s, w))
  ELSE IF w.op \in Accesses /\ adrp[s][w.rn] # NoPage THEN data(s, adrp[s][w.rn] + Offset(w))
  ELSE Kept(w.imm)

(* What a line shows of a word: of the register fields those that hold     *)
(* registers.                                                              *)
ImmediateInRd(w) == \/ w.op = "call" /\ ~arch.links
                    \/ w.op \in {"store", "cond"} /\ arch.splitStore
ImmediateInRn(w) == w.op \in {"call", "page"} \/ (w.op = "cond" /\ arch = ARM64)

Line(s, w) ==
  [op |-> w.op, rest |-> w.rest, last |-> w.last, arg |-> Operand(s, w),
   rd |-> IF ImmediateInRd(w) THEN 0 ELSE w.rd,
   rn |-> IF ImmediateInRn(w) THEN 0 ELSE w.rn]

(* The last operand of a line is taken for its destination.                *)
Materialize(s, w) ==
  IF w.last = NoReg THEN adrp[s]
  ELSE [adrp[s] EXCEPT ![w.last] = IF w.op = "page" /\ w.last \in arch.holds
                                   THEN PageOf(s, w) ELSE NoPage]

NormalizeLines(o, w) ==
  /\ same' = (same /\ Line("old", o) = Line("new", w))
  /\ adrp' = [s \in Sides |-> Materialize(s, IF s = "old" THEN o ELSE w)]

-----------------------------------------------------------------------------
(* RelocOnly's arguments: equal lengths, an architecture it knows.         *)
Init == /\ arch \in Arches
        /\ i = 0
        /\ tracked = {}
        /\ page = [s \in Sides |-> [x \in Reg |-> 0]]
        /\ verdict = "none"
        /\ adrp = [s \in Sides |-> [x \in Reg |-> NoPage]]
        /\ same = TRUE

(* The two words at i; a conditional branch stays in its function.         *)
Stays(w) == w.op = "cond" => Within("old", Start["old"] + 4 * (i + w.imm))
At(o, w) == verdict = "none" /\ i < WordCount /\ Stays(o) /\ Stays(w)

PagePair(o, w) == o.op = "page" /\ w.op = "page" /\ o.rd = w.rd
CallPair(o, w) == o.op = "call" /\ w.op = "call" /\ o.rest = w.rest /\ (arch.links => o.rd = w.rd)
PlainPair(o, w) == o = w /\ o.rn \notin tracked

(* Equal but for the immediate, of an operation the walk can follow.       *)
BasedPair(o, w) ==
  /\ w = [o EXCEPT !.imm = w.imm,
                   !.rd = IF o.op = "store" /\ arch.splitStore THEN w.rd ELSE @]
  /\ o.rn \in tracked
  /\ o.op \in arch.follows

SameCallee(x, y) ==
  LET o == Lookup(Funcs["old"], x)
      w == Lookup(Funcs["new"], y)
  IN  o.name # NoName /\ o.name = w.name /\ x - o.base = y - w.base

(* Targets x and y, of instructions that are equal or not: inside the      *)
(* function they must be, outside they must reach the same place.          *)
TargetsAgree(equal, x, y) ==
  IF Within("old", x) \/ Within("new", y)
  THEN equal /\ Within("old", x) /\ Within("new", y)
  ELSE SameCallee(x, y)

(* Seeded defects stand before the definitions they replace; no            *)
(* specification uses one.                                                 *)
DefectCallAcceptedIdentical(o, w) ==
  LET x == Target("old", o)
      y == Target("new", w)
  IN  IF o = w \/ Within("old", x) \/ Within("new", y)
      THEN o = w
      ELSE SameCallee(x, y)

CallAccepted(o, w) == TargetsAgree(o = w, Target("old", o), Target("new", w))

BasedAccepted(o, w) == sameData(page["old"][o.rn] + Offset(o), page["new"][o.rn] + Offset(w))

(* The cases of the switch; its default rejects.                           *)
Accepted(o, w) == \/ PagePair(o, w)
                  \/ CallPair(o, w) /\ CallAccepted(o, w)
                  \/ ~CallPair(o, w) /\ PlainPair(o, w)
                  \/ BasedPair(o, w) /\ BasedAccepted(o, w)

Advance(o, w) == /\ i' = i + 1
                 /\ NormalizeLines(o, w)
                 /\ UNCHANGED <<arch, verdict>>

(* A page instruction makes its register a page register, unless that is   *)
(* the zero register.                                                      *)
PageStep(o, w) ==
  /\ At(o, w)
  /\ PagePair(o, w)
  /\ IF o.rd = arch.zero
     THEN UNCHANGED <<tracked, page>>
     ELSE /\ tracked' = tracked \cup {o.rd}
          /\ page' = [s \in Sides |->
                        [page[s] EXCEPT ![o.rd] = PageOf(s, IF s = "old" THEN o ELSE w)]]
  /\ Advance(o, w)

(* Any other accepted word clears the register its destination bits name,  *)
(* whether or not it writes that register.                                 *)
WordStep(o, w) ==
  /\ At(o, w)
  /\ ~PagePair(o, w)
  /\ Accepted(o, w)
  /\ tracked' = tracked \ {o.rd}
  /\ UNCHANGED page
  /\ Advance(o, w)

Reject(o, w) ==
  /\ At(o, w)
  /\ ~Accepted(o, w)
  /\ verdict' = "false"
  /\ UNCHANGED <<arch, i, tracked, page, adrp, same>>

(* A trailing partial word must match exactly.                             *)
LastBytes(equal) ==
  /\ verdict = "none"
  /\ i = WordCount
  /\ verdict' = IF equal THEN "true" ELSE "false"
  /\ same' = (same /\ equal)
  /\ UNCHANGED <<arch, i, tracked, page, adrp>>

Next == \/ \E o, w \in Words[arch] : PageStep(o, w) \/ WordStep(o, w) \/ Reject(o, w)
        \/ \E equal \in BOOLEAN : LastBytes(equal)

Spec == Init /\ [][Next]_vars

-----------------------------------------------------------------------------
TypeOK == /\ arch \in Arches
          /\ i \in 0..WordCount
          /\ tracked \subseteq Reg \ {arch.zero}
          /\ page \in [Sides -> [Reg -> Int]]
          /\ verdict \in {"none", "true", "false"}
          /\ adrp \in [Sides -> [Reg -> Int \cup {NoPage}]]
          /\ same \in BOOLEAN

(* reloc.go:45-49: a true result means that the full pipeline would find   *)
(* the pair to be relocation-only noise, that is all its lines equal.      *)
NeverContradicts == verdict = "true" => same

(* What the walk takes for a page register NormalizeLines does too, on     *)
(* both sides and with the same address, and the other way round.          *)
TrackingAgrees ==
  \A s \in Sides, x \in Reg :
    IF x \in tracked THEN adrp[s][x] = page[s][x] ELSE adrp[s][x] = NoPage

(* They part at a word that names in its destination bits another register *)
(* than its line ends in, when one of the two holds a page, and where      *)
(* NormalizeLines gives riscv64's zero register a page: what the comments  *)
(* at reloc.go:190-193, 254-256 and 307-310 take to be harmless.           *)
Parts(o) == IF o.op = "page" THEN o.rd = arch.zero /\ o.rd \in arch.holds
            ELSE o.last # o.rd /\ {o.rd, o.last} \cap tracked # {}

Parting == \E o, w \in Words[arch] : (PageStep(o, w) \/ WordStep(o, w)) /\ Parts(o)
=============================================================================
