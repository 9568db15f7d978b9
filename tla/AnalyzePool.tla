---------------------------- MODULE AnalyzePool ----------------------------
(***************************************************************************)
(* ixdiff.analyze (src/ixdiff/compare.go): the loop that starts one        *)
(* goroutine per non-identical pair under errgroup's limit, and the        *)
(* goroutines, which disassemble under a weighted semaphore of             *)
(* analyzeBudget bytes.  errgroup.Group and semaphore.Weighted are not     *)
(* part of the repository; they are modelled from how analyze uses them:   *)
(* a plain Group (nothing is cancelled by an error), a background context  *)
(* (an Acquire is never abandoned), a FIFO of waiters that Release wakes   *)
(* in order, under the semaphore's mutex, for as long as they fit.         *)
(***************************************************************************)
EXTENDS PairModel, Integers, Sequences, FiniteSets

CONSTANTS N,         \* number of non-identical pairs
          PairKinds, \* the pairs the input is made of
          Limit,     \* runtime.NumCPU()
          Budget     \* analyzeBudget

ASSUME PoolAssumption == /\ N \in Nat
                         /\ PairKinds \subseteq Pair
                         /\ Limit \in Nat \ {0}
                         /\ Budget \in Nat \ {0}

VARIABLES
  pairs,    \* the input
  caller,   \* "spawning" until the goroutine that called analyze returns
  next,     \* the loop's position
  tokens,   \* errgroup: slots of the limit in use
  err,      \* errgroup: the first error reported
  stage,    \* where goroutine i is
  ret,      \* the side goroutine i failed on, or "none"
  results,  \* the shared slice; goroutine i writes slot i only
  cur,      \* semaphore: weight handed out
  waiters,  \* semaphore: FIFO of blocked goroutines
  mu        \* semaphore: the goroutine inside Release, or 0

vars == <<pairs, caller, next, tokens, err, stage, ret, results, cur, waiters, mu>>
group == <<caller, next, tokens, err>>
sem == <<cur, waiters, mu>>

Index == 1..N
NoResult == [noise |-> FALSE, counted |-> FALSE, script |-> FALSE]
NoError == [pair |-> 0, side |-> "none"]

(* Seeded defects, each next to the definition it stands in for, show that *)
(* the properties below notice them; no specification uses one.            *)
DefectWeightUnclamped(i) == Size(pairs[i])
DefectWeightNewSideOnly(i) ==
  IF pairs[i].newSize <= Budget THEN pairs[i].newSize ELSE Budget

(* The clamp lets a function larger than the budget through, on its own.   *)
Weight(i) == IF Size(pairs[i]) <= Budget THEN Size(pairs[i]) ELSE Budget

Stages == {"unborn", "acquiring", "queued", "parked", "working", "leaving",
           "releasing", "returned", "reported", "done"}
Holding == {"working", "leaving"}

-----------------------------------------------------------------------------
Init == /\ pairs \in [Index -> PairKinds]
        /\ caller = "spawning"
        /\ next = 1
        /\ tokens = 0
        /\ err = NoError
        /\ stage = [i \in Index |-> "unborn"]
        /\ ret = [i \in Index |-> "none"]
        /\ results = [i \in Index |-> NoResult]
        /\ cur = 0
        /\ waiters = <<>>
        /\ mu = 0

Goto(i, from, to) == /\ stage[i] = from
                     /\ stage' = [stage EXCEPT ![i] = to]

(* g.Go: blocks while Limit goroutines are alive, then starts the next.    *)
Go == /\ caller = "spawning"
      /\ next \in Index
      /\ tokens < Limit
      /\ tokens' = tokens + 1
      /\ next' = next + 1
      /\ Goto(next, "unborn", "acquiring")
      /\ UNCHANGED <<pairs, caller, err, ret, results, sem>>

DefectReturnWithoutWait == /\ caller = "spawning"
                           /\ next = N + 1
                           /\ caller' = "returned"
                           /\ UNCHANGED <<pairs, next, tokens, err, stage, ret, results, sem>>

(* g.Wait and the return: every pair was started and every goroutine done. *)
Return == /\ caller = "spawning"
          /\ next = N + 1
          /\ tokens = 0
          /\ caller' = "returned"
          /\ UNCHANGED <<pairs, next, tokens, err, stage, ret, results, sem>>

-----------------------------------------------------------------------------
(* inflight.Acquire: at once when the weight fits and nobody waits, never  *)
(* when it is more than the whole budget, and else in the queue.           *)
Fits(i) == Weight(i) <= Budget - cur

AcquireNow(i) == /\ mu = 0
                 /\ Fits(i)
                 /\ waiters = <<>>
                 /\ Goto(i, "acquiring", "working")
                 /\ cur' = cur + Weight(i)
                 /\ UNCHANGED <<pairs, group, ret, results, waiters, mu>>

Enqueue(i) == /\ mu = 0
              /\ ~(Fits(i) /\ waiters = <<>>)
              /\ IF Weight(i) > Budget
                 THEN /\ Goto(i, "acquiring", "parked")
                      /\ UNCHANGED waiters
                 ELSE /\ Goto(i, "acquiring", "queued")
                      /\ waiters' = Append(waiters, i)
              /\ UNCHANGED <<pairs, group, ret, results, cur, mu>>

(* The body of the goroutine: an analysis in its slot, or an error.        *)
Analyze(i) == /\ FailingSide(pairs[i]) = "none"
              /\ Goto(i, "working", "leaving")
              /\ results' = [results EXCEPT ![i] = AnalysisOf(pairs[i])]
              /\ UNCHANGED <<pairs, group, ret, sem>>

DefectDecodeErrorSwallowed(i) == /\ FailingSide(pairs[i]) # "none"
                                 /\ Goto(i, "working", "leaving")
                                 /\ UNCHANGED <<pairs, group, ret, results, sem>>

DefectNoReleaseOnError(i) == /\ FailingSide(pairs[i]) # "none"
                             /\ Goto(i, "working", "returned")
                             /\ ret' = [ret EXCEPT ![i] = FailingSide(pairs[i])]
                             /\ UNCHANGED <<pairs, group, results, sem>>

DefectReleaseTwiceOnError(i) == /\ FailingSide(pairs[i]) # "none"
                                /\ Goto(i, "working", "leaving")
                                /\ ret' = [ret EXCEPT ![i] = FailingSide(pairs[i])]
                                /\ cur' = cur - Weight(i)
                                /\ UNCHANGED <<pairs, group, results, waiters, mu>>

DecodeFails(i) == /\ FailingSide(pairs[i]) # "none"
                  /\ Goto(i, "working", "leaving")
                  /\ ret' = [ret EXCEPT ![i] = FailingSide(pairs[i])]
                  /\ UNCHANGED <<pairs, group, results, sem>>

(* The deferred inflight.Release: give the weight back, hand it to the     *)
(* waiters at the head of the queue one by one, leave the critical section.*)
Release(i) == /\ mu = 0
              /\ Goto(i, "leaving", "releasing")
              /\ mu' = i
              /\ cur' = cur - Weight(i)
              /\ UNCHANGED <<pairs, group, ret, results, waiters>>

HeadFits == waiters # <<>> /\ Fits(Head(waiters))

WakeHead == /\ mu # 0
            /\ HeadFits
            /\ Goto(Head(waiters), "queued", "working")
            /\ cur' = cur + Weight(Head(waiters))
            /\ waiters' = Tail(waiters)
            /\ UNCHANGED <<pairs, group, ret, results, mu>>

DefectUnlockEarly(i) == /\ mu = i
                        /\ Goto(i, "releasing", "returned")
                        /\ mu' = 0
                        /\ UNCHANGED <<pairs, group, ret, results, cur, waiters>>

Unlock(i) == /\ mu = i
             /\ ~HeadFits
             /\ Goto(i, "releasing", "returned")
             /\ mu' = 0
             /\ UNCHANGED <<pairs, group, ret, results, cur, waiters>>

(* errgroup, once the function returned: keep the first error, then free   *)
(* the slot of the limit and tell Wait.                                    *)
Report(i) == /\ Goto(i, "returned", "reported")
             /\ err' = IF ret[i] # "none" /\ err = NoError
                       THEN [pair |-> i, side |-> ret[i]] ELSE err
             /\ UNCHANGED <<pairs, caller, next, tokens, ret, results, sem>>

Done(i) == /\ Goto(i, "reported", "done")
           /\ tokens' = tokens - 1
           /\ UNCHANGED <<pairs, caller, next, err, ret, results, sem>>

-----------------------------------------------------------------------------
Goroutine(i) == \/ AcquireNow(i) \/ Enqueue(i)
                \/ Analyze(i) \/ DecodeFails(i)
                \/ Release(i) \/ Unlock(i)
                \/ Report(i) \/ Done(i)

Next == \/ Go
        \/ Return
        \/ WakeHead
        \/ \E i \in Index : Goroutine(i)

(* The Go scheduler runs every runnable goroutine: a step that stays       *)
(* enabled happens.  No goroutine takes infinitely many steps, so nobody   *)
(* keeps the semaphore's mutex from the others for ever.                   *)
Fairness == /\ WF_vars(Go)
            /\ WF_vars(Return)
            /\ WF_vars(WakeHead)
            /\ \A i \in Index : WF_vars(Goroutine(i))

Spec == Init /\ [][Next]_vars /\ Fairness

-----------------------------------------------------------------------------
(* The variables hold values of their types; in particular the semaphore   *)
(* never goes below zero, where Release would panic.                       *)
TypeOK == /\ pairs \in [Index -> PairKinds]
          /\ caller \in {"spawning", "returned"}
          /\ next \in 1..(N + 1)
          /\ tokens \in 0..Limit
          /\ err \in [pair : 0..N, side : {"none", "old", "new"}]
          /\ stage \in [Index -> Stages]
          /\ ret \in [Index -> {"none", "old", "new"}]
          /\ results \in [Index -> Analysis]
          /\ cur \in 0..Budget
          /\ waiters \in Seq(Index)
          /\ mu \in 0..N

(* The semaphore never hands out more than the budget, and `cur` is always *)
(* exactly the weight of the goroutines that are disassembling: no weight  *)
(* is lost or returned twice, whatever order they finish and fail in.      *)
(* HeldUnits spells the weights out as unit tokens, so that their sum is a *)
(* cardinality.                                                            *)
HeldUnits == {u \in Index \X (1..Budget) : stage[u[1]] \in Holding /\ u[2] <= Weight(u[1])}
BudgetRespected == cur = Cardinality(HeldUnits) /\ cur <= Budget

(* A pair larger than the whole budget, whose weight is clamped, still has *)
(* the memory to itself: whatever else is in flight has no code at all.    *)
(* This is what bounds the peak by the budget or by one function.          *)
OversizedAlone ==
  \A i, j \in Index :
    (i # j /\ stage[i] \in Holding /\ stage[j] \in Holding /\ Size(pairs[i]) >= Budget)
      => Size(pairs[j]) = 0

(* No lost wakeup: while nobody is inside Release, the head of the queue   *)
(* waits only because it really does not fit, and only behind weight that  *)
(* somebody will give back.                                                *)
NoLostWakeup ==
  mu = 0 /\ waiters # <<>> => /\ ~Fits(Head(waiters))
                             /\ \E i \in Index : stage[i] \in Holding

(* The errgroup limit bounds the goroutines that exist, so the loop never  *)
(* has more than Limit closures alive, queued ones included.               *)
LimitRespected ==
  /\ tokens = Cardinality({i \in Index : stage[i] \notin {"unborn", "done"}})
  /\ tokens <= Limit

(* When analyze returns nothing of it is left running, and without an      *)
(* error every slot holds its own pair's analysis, in input order; with an *)
(* error, it is the error some pair of the input really has.               *)
ReturnIsComplete ==
  caller = "returned" =>
    /\ \A i \in Index : stage[i] = "done"
    /\ err = NoError => \A i \in Index : results[i] = AnalysisOf(pairs[i])
    /\ err # NoError => /\ err.pair \in Index
                       /\ err.side = FailingSide(pairs[err.pair])
                       /\ err.side # "none"

(* analyze always returns: no pair, whatever its size, waits for ever.     *)
Termination == <>(caller = "returned")

(* The whole pool is one atomic answer to the caller.                      *)
Answer == IF caller = "spawning" THEN [kind |-> "none"]
          ELSE IF err = NoError THEN [kind |-> "ok", results |-> results]
          ELSE [kind |-> "err", pair |-> err.pair, side |-> err.side]

Abstract == INSTANCE PairAnalysis WITH answer <- Answer

(* The pool implements PairAnalysis: the limit, the semaphore and the      *)
(* order goroutines run in are invisible to the caller of analyze.         *)
ImplementsPairAnalysis == Abstract!Spec
=============================================================================
