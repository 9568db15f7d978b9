-------------------------- MODULE MCRelocClearing --------------------------
(***************************************************************************)
(* An arm64 body of four words.  B.NE has the number 1 of its condition in *)
(* the bits of a destination and clears R1 there; the line it reads as has *)
(* no destination, so NormalizeLines still follows R1.                     *)
(***************************************************************************)
EXTENDS RelocWalk

MCStart == [s \in Sides |-> IF s = "old" THEN 16384 ELSE 20496]
MCMasks == [n \in {"f", "a", "b"} |-> n]

Sym(name, base, size) == [name |-> name, base |-> base, size |-> size]
MCFuncs == [s \in Sides |-> {Sym("f", MCStart[s], 16)}]

(* The two sides have a and b in the other order.                          *)
MCData == [s \in Sides |->
  IF s = "old" THEN {Sym("a", 20480, 8), Sym("b", 20488, 8)}
  ELSE {Sym("b", 24576, 8), Sym("a", 24584, 8)}]

W(op, rd, rn, imm, last) ==
  [op |-> op, rd |-> rd, rn |-> rn, imm |-> imm, rest |-> 0, last |-> last]

MCArches == {ARM64}
MCWords ==
  [x \in MCArches |-> {W("page", 1, 0, 1, 1), W("page", 1, 0, 2, 1), W("cond", 1, 2, 2, NoReg),
                       W("add", 2, 1, 0, 2), W("add", 2, 1, 8, 2)}]
=============================================================================
