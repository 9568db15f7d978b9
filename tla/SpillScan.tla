----------------------------- MODULE SpillScan ------------------------------
(***************************************************************************)
(* countSpills (src/ixdiff/spill.go): one linear scan of a function that   *)
(* weighs stack accesses, direct ones and those through a scratch register *)
(* it believes to hold a stack address; one instruction a step.            *)
(* An instruction is its class of mnemonic, its operands as they are split *)
(* at commas, and its weight.  An operand is a register, a memory operand  *)
(* with its base, a fragment of a register list such as "(R0" or "R1)", or *)
(* something else.  The registers the machine really writes, and which     *)
(* hold stack addresses, are kept beside the scan; code the compiler emits *)
(* is taken in the order it stands in, as the scan takes it.               *)
(***************************************************************************)
EXTENDS Integers, Sequences, FiniteSets, SequencesExt

CONSTANTS Reg,        \* scratch registers
          SP,         \* the stack pointer
          Insts,      \* the instructions of the instruction set
          MaxInsts    \* bound on the length of a function

Classes == {"", "call", "add", "mov", "lea", "other"}
Operand == [kind : {"reg", "mem", "list"}, reg : Reg \cup {SP}] \cup {[kind |-> "else"]}
Tally == [{"spills", "slots"} -> Nat]
Inst == [op : Classes, args : Seq(Operand), writes : SUBSET Reg, weight : Tally]

ASSUME SpillAssumption == SP \notin Reg /\ Insts \subseteq Inst /\ MaxInsts \in Nat

VARIABLES tracks,  \* the architecture has an spName
          scanned, \* instructions scanned
          alias,   \* registers believed to hold a stack address
          count,   \* its result: spills and slots
          holds,   \* registers that do
          direct,  \* what accesses through SP itself weigh
          traffic, \* what accesses to the stack weigh
          fooled   \* an alias was written other than as the last operand: in a
                   \* register list, or by an instruction that does not name it

scanVars == <<tracks, scanned, alias, count, holds, direct, traffic, fooled>>

RegArg(r) == [kind |-> "reg", reg |-> r]
IsReg(a, r) == a = RegArg(r)
MemBase(a) == IF a.kind = "mem" THEN {a.reg} ELSE {}
Bases(in) == UNION {MemBase(a) : a \in Range(in.args)}

(* An access through one of the registers S; LEA computes an address only. *)
Through(in, S) == in.op # "lea" /\ Bases(in) \cap S # {}

Sources(in) == Range(Front(in.args))
DestReg(in) == IF Last(in.args).kind = "reg" THEN {Last(in.args).reg} ELSE {}

(* The instructions that put a stack address into their destination.       *)
Defines(in) ==
  LET dst == Last(in.args)
  IN  /\ ~IsReg(dst, SP)
      /\ \/ in.op = "add" /\ Len(in.args) >= 2 /\ RegArg(SP) \in Sources(in)
         \/ in.op = "mov" /\ Len(in.args) = 2 /\ IsReg(in.args[1], SP)
         \/ in.op = "lea" /\ Len(in.args) = 2 /\ SP \in MemBase(in.args[1])

ASSUME DefinitionsWrite ==
  \A in \in Insts : in.args # <<>> /\ Defines(in) => DestReg(in) \subseteq in.writes

(* What the scan believes after an instruction: a call forgets everything, *)
(* any other last operand that is a register is taken for a destination.   *)
(* Without an spName nothing is believed.                                  *)
AliasAfter(in) ==
  IF ~tracks THEN alias
  ELSE IF in.op = "call" THEN {}
  ELSE IF Defines(in) THEN alias \cup DestReg(in)
  ELSE alias \ DestReg(in)

(* What is so: a register written holds a stack address if it was computed *)
(* from one; what is loaded from memory is taken to be none.               *)
Computed(in) ==
  /\ in.op \in {"add", "mov", "lea"}
  /\ \E a \in Sources(in) : \/ a.kind = "reg" /\ a.reg \in holds \cup {SP}
                            \/ in.op = "lea" /\ MemBase(a) \cap (holds \cup {SP}) # {}
HoldsAfter(in) ==
  IF Computed(in) THEN holds \cup in.writes ELSE holds \ in.writes

-----------------------------------------------------------------------------
Zero == [t \in {"spills", "slots"} |-> 0]
Plus(c, d) == [t \in {"spills", "slots"} |-> c[t] + d[t]]
AtMost(c, d) == \A t \in {"spills", "slots"} : c[t] <= d[t]

ScanInit == /\ tracks \in BOOLEAN
            /\ scanned = 0
            /\ alias = {} /\ holds = {}
            /\ count = Zero /\ direct = Zero /\ traffic = Zero
            /\ fooled = FALSE

(* Undecodable bytes and instructions without operands are passed over.    *)
Skip(in) == in.op = "" \/ in.args = <<>>

Pass == /\ scanned < MaxInsts
        /\ \E in \in Insts : Skip(in)
        /\ scanned' = scanned + 1
        /\ UNCHANGED <<tracks, alias, count, holds, direct, traffic, fooled>>

(* A seeded defect stands before the definition it replaces; no            *)
(* specification uses it.                                                  *)
DefectWeighLEA(in, S) == IF Bases(in) \cap S # {} THEN in.weight ELSE Zero
Weigh(in, S) == IF Through(in, S) THEN in.weight ELSE Zero

Scan(in) ==
  /\ scanned < MaxInsts
  /\ ~Skip(in)
  /\ scanned' = scanned + 1
  /\ count' = Plus(count, Weigh(in, {SP} \cup alias))
  /\ alias' = AliasAfter(in)
  /\ direct' = Plus(direct, IF Through(in, {SP}) THEN in.weight ELSE Zero)
  /\ traffic' = Plus(traffic, IF Through(in, {SP} \cup holds) THEN in.weight ELSE Zero)
  /\ holds' = HoldsAfter(in)
  /\ fooled' = (fooled \/ (in.op # "call" /\ (in.writes \ DestReg(in)) \cap alias # {}))
  /\ UNCHANGED tracks

ScanNext == Pass \/ \E in \in Insts : Scan(in)

ScanSpec == ScanInit /\ [][ScanNext]_scanVars

-----------------------------------------------------------------------------
ScanTypeOK == /\ tracks \in BOOLEAN /\ fooled \in BOOLEAN
              /\ scanned \in 0..MaxInsts
              /\ alias \subseteq Reg /\ holds \subseteq Reg
              /\ count \in Tally /\ direct \in Tally /\ traffic \in Tally
              /\ ~tracks => alias = {}

(* A register taken to hold a stack address holds one, over any code and   *)
(* however registers are copied, adjusted, reloaded and clobbered, as long *)
(* as none was overwritten other than as the last operand.                 *)
AliasesAreStack == ~fooled => alias \subseteq holds

(* Both counts take in every direct access and, with the same proviso,     *)
(* nothing that is not an access to the stack.                             *)
CountIsTraffic == AtMost(direct, count) /\ (~fooled => AtMost(count, traffic))

(* countSpills: "memory operands through the scratch register count as     *)
(* stack accesses until the register is overwritten or a call clobbers it".*)
CountedUntilOverwritten == alias \subseteq holds
=============================================================================
