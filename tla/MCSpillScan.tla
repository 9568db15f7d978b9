---------------------------- MODULE MCSpillScan -----------------------------
(* Model-checking instance of SpillScan: functions of up to five arm64-like*)
(* instructions over two scratch registers: every way to define, copy,     *)
(* adjust, compare, load, store, reload in pairs and clobber them; one     *)
(* instruction writes a register it does not name, as amd64's MULQ does.   *)
EXTENDS SpillScan

MCReg == {"R20", "R27"}
Mem(r) == [kind |-> "mem", reg |-> r]
Piece(r) == [kind |-> "list", reg |-> r]
Else == [kind |-> "else"]
I(op, args, writes, weight) ==
  [op |-> op, args |-> args, writes |-> writes,
   weight |-> [spills |-> weight[1], slots |-> weight[2]]]
AnyReg == MCReg \cup {"RSP"}

MCNamedInsts ==
  {I("call", <<Else>>, MCReg, <<1, 1>>), I("other", <<>>, {}, <<1, 1>>), I("", <<Mem("RSP")>>, {}, <<1, 1>>),
   I("add", <<Else, RegArg("RSP"), RegArg("RSP")>>, {}, <<1, 1>>)}
  \cup {I("add", <<Else, RegArg(a), RegArg(d)>>, {d}, <<1, 1>>) : a \in AnyReg, d \in MCReg}
  \cup {I("add", <<RegArg("RSP"), RegArg(d), RegArg(d)>>, {d}, <<1, 1>>) : d \in MCReg}
  \cup {I("mov", <<RegArg(a), RegArg(d)>>, {d}, <<1, 1>>) : a \in AnyReg, d \in MCReg}
  \cup {I("lea", <<Mem(b), RegArg(d)>>, {d}, <<1, 1>>) : b \in AnyReg, d \in MCReg}
  \cup {I("mov", <<Mem(b), RegArg(d)>>, {d}, <<1, 1>>) : b \in AnyReg, d \in MCReg}
  \cup {I("mov", <<RegArg(a), Mem(b)>>, {}, <<1, 1>>) : a \in MCReg, b \in AnyReg}
  \cup {I("other", <<Else, Mem(b)>>, {}, <<1, 2>>) : b \in AnyReg}
  \cup {I("other", <<Else, RegArg(a)>>, {}, <<1, 1>>) : a \in MCReg}
  \cup {I("other", <<Piece("R20"), Piece("R27"), Mem(b)>>, {}, <<2, 2>>) : b \in AnyReg}
  \cup {I("other", <<Mem(b), Piece("R20"), Piece("R27")>>, MCReg, <<2, 2>>) : b \in AnyReg}
MCInsts == MCNamedInsts \cup {I("other", <<RegArg("R27")>>, MCReg, <<1, 1>>)}
=============================================================================
