----------------------------- MODULE PairModel -----------------------------
(***************************************************************************)
(* What ixdiff.analyze reads of a pair of functions (src/ixdiff/compare.go,*)
(* src/internal/fndiff/fndiff.go), and the analysis it must come to.       *)
(* Disassembly and normalisation are functions of the pair alone, so their *)
(* outcome is part of the pair: `fast` is norm.RelocOnly's answer, `oldOK` *)
(* and `newOK` whether a side decodes, `equal` whether the two normalised  *)
(* bodies are equal after AlignLabels.                                     *)
(***************************************************************************)
EXTENDS Naturals

State == {"changed", "added", "removed"}

Pair == [state : State, oldSize : Nat, newSize : Nat, fast : BOOLEAN,
         oldOK : BOOLEAN, newOK : BOOLEAN, equal : BOOLEAN]

HasOld(p) == p.state # "added"
HasNew(p) == p.state # "removed"

(* The bytes a pair keeps in flight, a missing side counting for nothing.  *)
Size(p) == (IF HasOld(p) THEN p.oldSize ELSE 0)
           + (IF HasNew(p) THEN p.newSize ELSE 0)

(* The triage that needs no disassembly.                                   *)
FastPath(p) == p.state = "changed" /\ p.fast

(* The side whose disassembly fails; the old side is decoded first.        *)
FailingSide(p) ==
  IF FastPath(p) THEN "none"
  ELSE IF HasOld(p) /\ ~p.oldOK THEN "old"
  ELSE IF HasNew(p) /\ ~p.newOK THEN "new"
  ELSE "none"

(* The analysis of a pair: `noise` keeps no edit script, `counted` carries *)
(* instruction, opcode and spill deltas, `script` an edit script.          *)
Analysis == [noise : BOOLEAN, counted : BOOLEAN, script : BOOLEAN]

AnalysisOf(p) ==
  [noise   |-> p.state = "changed" /\ (p.fast \/ p.equal),
   counted |-> ~FastPath(p),
   script  |-> p.state = "changed" /\ ~p.fast /\ ~p.equal]
=============================================================================
