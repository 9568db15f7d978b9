---------------------------- MODULE MCComparison ----------------------------
(***************************************************************************)
(* Tables of up to three functions of three names, the first two in one    *)
(* package, with five bodies: b is a relocated and does not disassemble, w *)
(* is a relocated and longer (an address in more bytes), c is different    *)
(* code and ends in BYTE lines, v is different code that RelocOnly takes   *)
(* for a relocated.  Tables of three have their bodies by position.  An int*)
(* is just wide enough for the largest text.                               *)
(***************************************************************************)
EXTENDS Rankings

MCCode == {"a", "b", "w", "c", "v"}
MCCodeSize == [c \in MCCode |-> CASE c \in {"w", "c"} -> 5 [] OTHER -> 2]
MCText == [c \in MCCode |-> IF c \in {"c", "v"} THEN c ELSE "a"]
MCInsts == [c \in MCCode |-> CASE c = "c" -> <<"MOV", "CALL", "CALL", "", "">>
                               [] c = "v" -> <<"MOV", "SUB">>
                               [] OTHER   -> <<"MOV", "ADD">>]
MCTraffic == [c \in MCCode |-> IF c = "c" THEN [spill |-> 2, slot |-> 4] ELSE [spill |-> 1, slot |-> 1]]
MCProvable == {<<"a", "a">>, <<"a", "b">>, <<"a", "v">>, <<"c", "c">>}
MCUndecodable == {"b"}
MCPkgOf == [n \in 1..3 |-> IF n = 3 THEN 2 ELSE 1]

Three(bodies) == {b \in [1..3 -> [name : 1..3, code : MCCode]] : \A k \in 1..3 : b[k].code = bodies[k]}
MCOldBinaries == BoundedSeq([name : 1..3, code : {"a", "c"}], 2) \cup Three(<<"a", "c", "a">>)
MCNewBinaries == BoundedSeq([name : 1..3, code : MCCode], 2) \cup Three(<<"c", "a", "w">>)
=============================================================================
