---------------------------- MODULE MCRelocWalk ----------------------------
(***************************************************************************)
(* Bodies of four words on each of the three architectures, whose every    *)
(* word may be any of the listed ones: two page registers, a third         *)
(* register, the zero register, targets inside and outside the function.   *)
(* The new function lies one page and a bit further on, so that equal      *)
(* words may reach other symbols.  Then bodies of sixteen bytes of amd64,  *)
(* 386 and arm, with branches and references to the same symbols.          *)
(***************************************************************************)
EXTENDS RelocOnly

MCStart == [s \in Sides |-> IF s = "old" THEN 16384 ELSE 20496]
MCNames == {"f", "g", "h", "a", "b", "blob", "marker", "gen.1", "gen.2"}
MCMasks == [n \in MCNames |-> IF n \in {"gen.1", "gen.2"} THEN "gen.n" ELSE n]
MCUntrusted == {"marker"}

Sym(name, base, size) == [name |-> name, base |-> base, size |-> size]

(* g keeps its distance on both sides, h is reached on the new side only.  *)
MCFuncs == [s \in Sides |->
  IF s = "old" THEN {Sym("f", 16384, 16), Sym("g", 16424, 16)}
  ELSE {Sym("f", 20496, 16), Sym("g", 20544, 16), Sym("h", 20536, 8)}]

(* From page 20480 of the old side and 24576 of the new: a moves, b stays  *)
(* after it, what follows is renumbered, a marker, a blob.                 *)
MCData == [s \in Sides |->
  IF s = "old" THEN {Sym("a", 20480, 8), Sym("b", 20488, 8), Sym("gen.1", 20496, 8),
                     Sym("marker", 20504, 8), Sym("blob", 24576, 8192)}
  ELSE {Sym("b", 24576, 8), Sym("a", 24584, 8), Sym("gen.2", 24592, 8),
        Sym("marker", 24600, 8), Sym("blob", 28672, 8192)}]

(* Words that differ in their immediates.                                  *)
Family(x, op, rd, rn, ns, rest) ==
  {[op |-> op, rd |-> RdField(x, op, n, rd), rn |-> RnField(x, op, n, rn), imm |-> n, rest |-> rest,
    last |-> IF op \in {"page", "add", "load", "other"} THEN rd ELSE NoReg] : n \in ns}

(* Two page registers, 5 and 7, and a third register, 6.                   *)
MCWords ==
  [x \in {ARM64, RISCV64, Loong64} |->
     Family(x, "page", 5, 0, {1, 2}, 0) \cup Family(x, "page", 7, 0, {1, 2}, 0)
     \cup Family(x, "call", 0, 0, {-1, 1, 10, 12}, 0) \cup Family(x, "call", 0, 0, {10}, 1)
     \cup Family(x, "cond", 0, 6, {1, -1}, 0)
     \cup Family(x, "add", 6, 5, {0, 8, 16, 24}, 0) \cup Family(x, "add", 5, 6, {0, 8}, 0)
     \cup Family(x, "add", 6, 7, {0, 8, 16}, 0) \cup Family(x, "add", 5, 7, {0, 8}, 0)
     \cup Family(x, "load", 5, 5, {0, 8}, 0) \cup Family(x, "load", 6, x.zero, {0, 8}, 0)
     \cup Family(x, "store", 6, 5, {0, 8}, 0) \cup Family(x, "wide", 6, 5, {0, 8}, 0)
     \cup Family(x, "other", 5, 6, {0}, 0) \cup Family(x, "other", 6, 5, {0}, 0)
     \cup (IF x = ARM64 THEN Family(x, "load", 6, 5, {0, 1}, 3) \cup Family(x, "page", 31, 0, {1}, 0)
           ELSE IF x = Loong64 THEN Family(x, "page", 0, 0, {1}, 0)
           ELSE Family(x, "load", 6, 5, {0, 8, -8, -16}, 0) \cup Family(x, "store", 6, 5, {-8, -16}, 1))]

MCArches == {ARM64, RISCV64, Loong64}

-----------------------------------------------------------------------------
MCContains == [s \in Sides |-> 16384..36864]

A(kind, n) == [kind |-> kind, n |-> n, rest |-> 0]
In(op, len, args) == [op |-> op, len |-> len, args |-> args]

(* Branches within the function, to g, to h and into nothing; references   *)
(* to every datum, to functions and to none; constants of every kind.      *)
X86 == {In("CALL", 5, <<A("rel", n)>>) : n \in {-10, -5, 0} \cup 25..48}
       \cup {In("JMP", 2, <<A("rel", n)>>) : n \in {-2, 1, 30, 38}}
       \cup {In("MOVL", 5, <<A("imm", n)>>) : n \in {7, 100, 32700}}
       \cup {In("RET", 1, <<>>), In("XORL", 2, <<A("kept", 1)>>), In("XORL", 2, <<A("kept", 2)>>)}

AMD64Only == {In("LEAQ", 7, <<A("rip", n)>>) : n \in (4064..4105 \cup {30, 38, 60})}
             \cup {In("CMPQ", 9, <<A("rip", n), A("imm", 7)>>) : n \in {4071, 4079, 4087, 4095}}

Load(n, size) == In("LDR", 4, <<[kind |-> "load", n |-> n, rest |-> size]>>)
ARMInsts == {In("BL", 4, <<A("rel", n)>>) : n \in {-8, -12, 24, 28, 32, 36, 40}}
            \cup {In("BEQ", 4, <<A("rel", n)>>) : n \in {-8, 32}}
            \cup {Load(0, 4), Load(-4, 8), In("MOVW", 4, <<A("imm", 7)>>)}
            \cup {In("WORD", 4, <<A("word", n)>>) : n \in {7, 9, 20480, 24576, 24584, 20496, 24592, 30000}}

MCFlatArches == {AMD64, I386, ARM, Other}
MCInsts == [x \in MCFlatArches |-> CASE x = AMD64 -> X86 \cup AMD64Only
                                    [] x = I386 -> X86
                                    [] x = ARM -> ARMInsts
                                    [] OTHER -> {}]

-----------------------------------------------------------------------------
(* No word here can part the two trackings, and no constant that both      *)
(* sides share is shown in two ways: with either, NeverContradicts fails.  *)
(* MCRelocClearing shows it of the first.                                  *)
WordsWriteTheirField ==
  \A x \in MCArches : \A w \in MCWords[x] :
    IF w.op = "page" THEN w.rd \in x.holds <=> w.rd # x.zero
    ELSE w.last # w.rd => {w.last, w.rd} \cap {5, 7} = {}

ConstantsReadAlike ==
  \A x \in MCFlatArches : \A in \in MCInsts[x] : \A k \in DOMAIN in.args :
    LET n == in.args[k].n
    IN  CASE in.args[k].kind = "imm" -> Constant("old", n) = Constant("new", n)
          [] in.args[k].kind = "word" -> n \in Contains["old"] <=> n \in Contains["new"]
          [] OTHER -> TRUE

ASSUME WordsWriteTheirField /\ ConstantsReadAlike
=============================================================================
