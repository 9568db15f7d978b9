--------------------------- MODULE MCAnalyzePool ---------------------------
(* Model-checking instance of AnalyzePool: four goroutines, three at a     *)
(* time, that compete for a budget of 3 with weights of 1, 2 and 3.        *)
EXTENDS AnalyzePool

P(s, o, n, f, ook, nok, eq) ==
  [state |-> s, oldSize |-> o, newSize |-> n, fast |-> f, oldOK |-> ook, newOK |-> nok, equal |-> eq]

(* An added function, relocation noise that would not decode, and a pair   *)
(* beyond the budget that fails to decode.                                 *)
MCKinds == {P("added", 9, 1, FALSE, FALSE, TRUE, FALSE),
            P("changed", 0, 2, TRUE, FALSE, TRUE, TRUE),
            P("changed", 3, 2, FALSE, TRUE, FALSE, FALSE)}
=============================================================================
