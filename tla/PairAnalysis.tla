---------------------------- MODULE PairAnalysis ----------------------------
(***************************************************************************)
(* What ixdiff.analyze promises its caller, without goroutines, limits or  *)
(* a semaphore: after some time it answers once, with the analysis of      *)
(* every pair in the order of the input, or, when some pair does not       *)
(* decode, with the error of one such pair.                                *)
(***************************************************************************)
EXTENDS PairModel

CONSTANTS N,         \* number of pairs
          PairKinds  \* the pairs the input is made of

VARIABLES pairs,     \* the input, fixed for the whole behaviour
          answer     \* "none" until analyze returns

vars == <<pairs, answer>>

Undecodable == {i \in 1..N : FailingSide(pairs[i]) # "none"}

Pending == [kind |-> "none"]
Analysed == [kind |-> "ok", results |-> [i \in 1..N |-> AnalysisOf(pairs[i])]]
ErrorOf(i) == [kind |-> "err", pair |-> i, side |-> FailingSide(pairs[i])]

Init == /\ pairs \in [1..N -> PairKinds]
        /\ answer = Pending

Succeed == /\ Undecodable = {}
           /\ answer' = Analysed

Fail == \E i \in Undecodable : answer' = ErrorOf(i)

Next == /\ answer = Pending
        /\ Succeed \/ Fail
        /\ UNCHANGED pairs

Spec == Init /\ [][Next]_vars /\ WF_vars(Next)
=============================================================================
