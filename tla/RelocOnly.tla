----------------------------- MODULE RelocOnly -----------------------------
(***************************************************************************)
(* The whole of norm.RelocOnly: beside the walks of RelocWalk those over   *)
(* code that builds no page addresses in registers.  amd64 and 386         *)
(* (relocx86.go) are decoded in lockstep; arm (relocarm.go) is read word   *)
(* by word, with the literal pools its loads reach.  As in RelocWalk, the  *)
(* same instructions go through the rules of NormalizeLines.  Instructions *)
(* are chosen as the walk reaches them, except that arm's old body is      *)
(* chosen at the start, since its loads say which words are data.          *)
(* Decoding and rendering are external; decodeX86 is taken to be right     *)
(* about an instruction's length, or to fail.                              *)
(***************************************************************************)
EXTENDS RelocWalk, Sequences

CONSTANTS FlatArches, \* descriptions of architectures, of the four below
          Insts,      \* the instructions and pool words a body may hold
          Contains    \* the addresses inside the binary, per side

AMD64 == [walk |-> "x86", mode |-> 64]
I386 == [walk |-> "x86", mode |-> 32]
ARM == [walk |-> "arm", mode |-> 32]
Other == [walk |-> "none", mode |-> 64]

(* An instruction has an operation (with prefix, registers, condition),    *)
(* a length and arguments.  "rel": a displacement of a branch; "rip": a    *)
(* memory operand relative to the next instruction, with the rest of it;   *)
(* "load": one relative to arm's pc, with its size; "imm": an immediate;   *)
(* "word": a word of a literal pool; "kept": anything else.                *)
Kind == {"rel", "rip", "load", "imm", "word", "kept"}
Arg == {a \in [kind : Kind, n : Int, rest : Nat] : a.kind \in {"rel", "word"} => a.rest = 0}
Inst == [op : STRING, len : Nat \ {0}, args : Seq(Arg)]

Has(x, kind) == \E k \in DOMAIN x.args : x.args[k].kind = kind

ASSUME FlatAssumption ==
  /\ FlatArches \subseteq {AMD64, I386, ARM, Other}
  /\ FlatArches \cap Arches = {}
  /\ \A x \in FlatArches : \A in \in Insts[x] :
       /\ in \in Inst
       /\ x = ARM => in.len = 4 /\ Len(in.args) <= 1
       /\ Has(in, "word") => x = ARM /\ in.op = "WORD"
       /\ Has(in, "rip") => x = AMD64
  /\ \A s \in Sides : \A sym \in Data[s] : sym \in Symbol /\ sym.base..sym.base + sym.size - 1 \subseteq Contains[s]

VARIABLES off,    \* bytes walked
          oldCode \* arm: the words of the old body

flatVars == <<off, oldCode>>
allVars == <<vars, flatVars>>

Size == 4 * WordCount
flat == <<i, tracked, page, adrp>>

-----------------------------------------------------------------------------
(* Where an instruction's argument points: x86 counts from its end, arm    *)
(* from eight bytes after its start.                                       *)
Reached(s, in, arg) == Start[s] + off + (IF arch.walk = "arm" THEN 8 ELSE in.len) + arg.n

(* What NormalizeLines' lines show of an argument.  An address inside the  *)
(* binary is resolved, whatever instruction holds it as an immediate.      *)
Constant(s, x) == IF x \in Contains[s] THEN data(s, x) ELSE Kept(x)

Reference(s, x) ==
  LET sym == Lookup(Funcs[s], x)
  IN  IF sym.name = NoName THEN data(s, x) ELSE Ref(sym.name, x - sym.base)

Shown(s, in, arg) ==
  CASE arg.kind = "rel" -> Destination(s, Reached(s, in, arg))
    [] arg.kind = "rip" -> Reference(s, Reached(s, in, arg))
    [] arg.kind \in {"imm", "word"} -> Constant(s, arg.n)
    [] OTHER -> Kept(arg.n)

FlatLine(s, in) ==
  [op |-> in.op,
   args |-> [k \in DOMAIN in.args |-> <<in.args[k].rest, Shown(s, in, in.args[k])>>]]

-----------------------------------------------------------------------------
(* x86: equal but for displacements that reach the same place.             *)
SameReference(x, y) ==
  IF Lookup(Funcs["old"], x).name # NoName \/ Lookup(Funcs["new"], y).name # NoName
  THEN SameCallee(x, y)
  ELSE sameData(x, y)

ArgAccepted(o, w, a, b) ==
  LET x == Reached("old", o, a)
      y == Reached("new", w, b)
  IN  IF a.kind = "rel" /\ b.kind = "rel" THEN TargetsAgree(a = b, x, y)
      ELSE IF a.kind = "rip" /\ b.kind = "rip" THEN a.rest = b.rest /\ SameReference(x, y)
      ELSE a = b

InstAccepted(o, w) ==
  /\ o.op = w.op /\ o.len = w.len /\ Len(o.args) = Len(w.args)
  /\ \A k \in DOMAIN o.args : ArgAccepted(o, w, o.args[k], w.args[k])

(* arm: the offsets of the words that pc-relative loads reach.             *)
armPool(code) ==
  {p \in {4 * k : k \in 0..WordCount - 1} :
     \E k \in DOMAIN code, j \in {0, 4} :
       /\ Has(code[k], "load")
       /\ j < code[k].args[1].rest
       /\ p = 4 * (k - 1) + 8 + code[k].args[1].n + j}

DefectPoolAcceptedShared(x, y) ==
  x # y => /\ sameData(x, y)
           /\ ~dataMasked(Lookup(Data["old"], x)) /\ ~dataMasked(Lookup(Data["new"], y))

PoolAccepted(x, y) ==
  /\ sameData(x, y)
  /\ x # y => ~dataMasked(Lookup(Data["old"], x)) /\ ~dataMasked(Lookup(Data["new"], y))

ArmBranches(o, w) == Has(o, "rel") /\ Has(w, "rel") /\ o.op = w.op

ArmAccepted(o, w) ==
  IF off \in armPool(oldCode) THEN PoolAccepted(o.args[1].n, w.args[1].n)
  ELSE IF ArmBranches(o, w) THEN ArgAccepted(o, w, o.args[1], w.args[1])
  ELSE o = w

FlatAccepted(o, w) == IF arch.walk = "arm" THEN ArmAccepted(o, w) ELSE InstAccepted(o, w)

-----------------------------------------------------------------------------
(* The words of a pool are those loads reach, and no constant reads as a   *)
(* load.                                                                   *)
Bodies == {code \in [1..WordCount -> Insts[ARM]] :
             \A k \in 1..WordCount : Has(code[k], "word") <=> 4 * (k - 1) \in armPool(code)}

RelocOnlyInit ==
  /\ \/ Init
     \/ /\ arch \in FlatArches
        /\ i = 0 /\ tracked = {} /\ verdict = "none" /\ same = TRUE
        /\ page = [s \in Sides |-> [x \in Reg |-> 0]]
        /\ adrp = [s \in Sides |-> [x \in Reg |-> NoPage]]
  /\ off = 0
  /\ oldCode \in IF arch = ARM THEN Bodies ELSE {<<>>}

(* Bodies of different lengths, and architectures without a walk.          *)
Decline(lengthsDiffer) ==
  /\ verdict = "none" /\ i = 0 /\ off = 0
  /\ lengthsDiffer \/ (arch \in FlatArches /\ arch.walk = "none")
  /\ verdict' = "false"
  /\ UNCHANGED <<arch, flat, same, flatVars>>

PagedWalk == arch \in Arches /\ Next /\ UNCHANGED flatVars

(* The instructions or words at off.  The pool of the new body is that of  *)
(* the old one, unless a load differs and so is rejected where it stands.  *)
FlatAt(o, w) ==
  /\ verdict = "none"
  /\ arch.walk # "none"
  /\ off + o.len <= Size /\ off + w.len <= Size
  /\ arch.walk = "arm" => o = oldCode[off \div 4 + 1] /\ (Has(w, "word") <=> Has(o, "word"))

InstStep(o, w) ==
  /\ FlatAt(o, w)
  /\ FlatAccepted(o, w)
  /\ off' = off + o.len
  /\ same' = (same /\ FlatLine("old", o) = FlatLine("new", w))
  /\ UNCHANGED <<arch, verdict, flat, oldCode>>

FlatReject(o, w) ==
  /\ FlatAt(o, w)
  /\ ~FlatAccepted(o, w)
  /\ verdict' = "false"
  /\ UNCHANGED <<arch, flat, same, flatVars>>

(* Bytes that do not decode: what follows has no boundaries.               *)
Undecodable ==
  /\ verdict = "none"
  /\ arch.walk = "x86"
  /\ off < Size
  /\ verdict' = "false"
  /\ UNCHANGED <<arch, flat, same, flatVars>>

(* arm compares what is left of a last word; x86 leaves nothing.           *)
FlatEnd(equal) ==
  /\ verdict = "none"
  /\ arch.walk # "none"
  /\ off = Size
  /\ arch.walk = "x86" => equal
  /\ verdict' = IF equal THEN "true" ELSE "false"
  /\ same' = (same /\ equal)
  /\ UNCHANGED <<arch, flat, flatVars>>

FlatWalk == /\ arch \in FlatArches
            /\ \/ \E o, w \in Insts[arch] : InstStep(o, w) \/ FlatReject(o, w)
               \/ Undecodable
               \/ \E equal \in BOOLEAN : FlatEnd(equal)

RelocOnlyNext == \/ \E lengthsDiffer \in BOOLEAN : Decline(lengthsDiffer)
                 \/ PagedWalk
                 \/ FlatWalk

RelocOnlySpec == RelocOnlyInit /\ [][RelocOnlyNext]_allVars

-----------------------------------------------------------------------------
(* An immediate or a pool word that both bodies share is accepted without  *)
(* looking at what it resolves to, which may differ.                       *)
Misread == \E o, w \in Insts[arch] :
             /\ InstStep(o, w)
             /\ \E k \in DOMAIN o.args : /\ o.args[k] = w.args[k]
                                         /\ o.args[k].kind \in {"imm", "word"}
                                         /\ Constant("old", o.args[k].n) # Constant("new", o.args[k].n)
=============================================================================
