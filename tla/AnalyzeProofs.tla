--------------------------- MODULE AnalyzeProofs ---------------------------
(***************************************************************************)
(* What ixdiff.analyze is made of, for all inputs: the pool its goroutines *)
(* run in, the labels it aligns the two sides of a pair by, and the spills *)
(* it counts.                                                              *)
(***************************************************************************)
EXTENDS AnalyzePool, AlignLabels, SpillScan, FiniteSetTheorems, SequenceTheorems, TLAPS

(***************************************************************************)
(* Proofs about AnalyzePool, for every number of pairs, every mix of pairs,*)
(* every limit and every budget.                                           *)
(***************************************************************************)

After == {"leaving", "releasing", "returned", "reported", "done"}
Alive == {i \in Index : stage[i] \notin {"unborn", "done"}}

(* The types, without the bounds that follow from the counting parts.      *)
Shape == /\ pairs \in [Index -> PairKinds]
         /\ caller \in {"spawning", "returned"}
         /\ next \in 1..(N + 1)
         /\ tokens \in Int
         /\ err \in [pair : 0..N, side : {"none", "old", "new"}]
         /\ stage \in [Index -> Stages]
         /\ ret \in [Index -> {"none", "old", "new"}]
         /\ results \in [Index -> Analysis]
         /\ cur \in Int
         /\ waiters \in Seq(Index)
         /\ mu \in 0..N

(* The queue holds blocked goroutines, each once; mu names the goroutine   *)
(* inside Release.                                                         *)
QueueInv == /\ \A k \in 1..Len(waiters) : stage[waiters[k]] = "queued"
            /\ \A j, k \in 1..Len(waiters) : waiters[j] = waiters[k] => j = k
MutexInv == \A i \in Index : stage[i] = "releasing" <=> mu = i
WakeInv == mu = 0 /\ waiters # <<>> => ~Fits(Head(waiters))

(* What each goroutine has done by the time it has reached a stage.        *)
SlotInv ==
  \A i \in Index :
    /\ stage[i] = "unborn" <=> i >= next
    /\ ret[i] # "none" => stage[i] \in After /\ ret[i] = FailingSide(pairs[i])
    /\ stage[i] \in After /\ ret[i] = "none" => /\ FailingSide(pairs[i]) = "none"
                                               /\ results[i] = AnalysisOf(pairs[i])
    /\ stage[i] \in {"reported", "done"} /\ ret[i] # "none" => err # NoError

ErrInv == err # NoError => /\ err.pair \in Index
                           /\ err.side = ret[err.pair]
                           /\ err.side # "none"
ReturnInv == caller = "returned" => next = N + 1 /\ tokens = 0
CountInv == /\ tokens = Cardinality(Alive) /\ tokens <= Limit
            /\ cur = Cardinality(HeldUnits) /\ cur <= Budget

IInv == /\ Shape /\ QueueInv /\ MutexInv /\ WakeInv
        /\ SlotInv /\ ErrInv /\ ReturnInv /\ CountInv

-----------------------------------------------------------------------------
(* A weight is a natural number within the budget, and its clamp only ever *)
(* lowers it to the whole budget.                                          *)
LEMMA WeightInBudget ==
  ASSUME Shape, NEW i \in Index
  PROVE  /\ Size(pairs[i]) \in Nat
         /\ Weight(i) \in 0..Budget
         /\ Weight(i) = 0 => Size(pairs[i]) = 0
         /\ Size(pairs[i]) >= Budget => Weight(i) = Budget
<1>1. pairs[i] \in Pair
  BY PoolAssumption DEF Shape
<1>2. Size(pairs[i]) \in Nat
  BY <1>1 DEF Size, HasOld, HasNew, Pair
<1> QED
  BY <1>2, PoolAssumption DEF Weight

(* The analysis of a pair is an analysis and its failing side a side.      *)
LEMMA OutcomeTypes ==
  ASSUME Shape, NEW i \in Index
  PROVE  /\ AnalysisOf(pairs[i]) \in Analysis
         /\ FailingSide(pairs[i]) \in {"none", "old", "new"}
<1>1. pairs[i] \in Pair
  BY PoolAssumption DEF Shape
<1> QED
  BY <1>1 DEF AnalysisOf, Analysis, FailingSide, FastPath, HasOld, HasNew, Pair

(* The unit tokens of one index number as many as its weight.              *)
LEMMA UnitsCount ==
  ASSUME NEW i, NEW w \in Nat
  PROVE  IsFiniteSet({i} \X (1..w)) /\ Cardinality({i} \X (1..w)) = w
<1>1. IsFiniteSet(1..w) /\ Cardinality(1..w) = w
  BY FS_Interval
<1>2. IsFiniteSet({i}) /\ Cardinality({i}) = 1
  BY FS_Singleton
<1>3. ASSUME NEW S, NEW T, IsFiniteSet(S), IsFiniteSet(T), Cardinality(S) = 1, Cardinality(T) = w
      PROVE  IsFiniteSet(S \X T) /\ Cardinality(S \X T) = w
  BY <1>3, FS_Product
<1> QED
  BY <1>1, <1>2, <1>3

(* A set that gains the unit tokens of one index grows by their number.    *)
LEMMA UnitsGained ==
  ASSUME NEW H, IsFiniteSet(H), NEW i, NEW w \in Nat,
         H \cap ({i} \X (1..w)) = {}
  PROVE  /\ IsFiniteSet(H \cup ({i} \X (1..w)))
         /\ Cardinality(H \cup ({i} \X (1..w))) = Cardinality(H) + w
<1> DEFINE U == {i} \X (1..w)
<1>1. IsFiniteSet(U) /\ Cardinality(U) = w
  BY UnitsCount
<1>2. Cardinality(H) \in Nat
  BY FS_CardinalityType
<1>3. Cardinality(H \cap U) = 0
  BY FS_EmptySet
<1> HIDE DEF U
<1>4. /\ IsFiniteSet(H \cup U)
      /\ Cardinality(H \cup U) = Cardinality(H) + Cardinality(U) - Cardinality(H \cap U)
  BY <1>1, FS_Union
<1>5. Cardinality(H \cup U) = Cardinality(H) + w
  BY <1>1, <1>2, <1>3, <1>4
<1> QED
  BY <1>4, <1>5 DEF U

(* Both counted sets are finite.                                           *)
LEMMA CountedSetsFinite ==
  IsFiniteSet(HeldUnits) /\ IsFiniteSet(Alive)
<1>1. IsFiniteSet(Index) /\ IsFiniteSet(1..Budget)
  BY FS_Interval, PoolAssumption DEF Index
<1>2. IsFiniteSet(Index \X (1..Budget))
  BY <1>1, FS_Product
<1>3. HeldUnits \in SUBSET (Index \X (1..Budget))
  BY DEF HeldUnits
<1>4. Alive \in SUBSET Index
  BY DEF Alive
<1> QED
  BY <1>1, <1>2, <1>3, <1>4, FS_Subset

-----------------------------------------------------------------------------
(* One lemma per part of the invariant: every step of analyze keeps it.    *)
LEMMA InitIInv == Init => IInv
<1> SUFFICES ASSUME Init PROVE IInv
  OBVIOUS
<1> USE PoolAssumption
<1>1. Shape
  BY DEF Init, Shape, NoError, NoResult, Analysis, Stages, Index
<1>2. HeldUnits = {} /\ Alive = {}
  BY DEF Init, HeldUnits, Holding, Alive
<1>3. CountInv
  BY <1>2, FS_EmptySet DEF Init, CountInv
<1>4. QueueInv /\ MutexInv /\ WakeInv
  BY DEF Init, QueueInv, MutexInv, WakeInv, Index
<1>5. SlotInv /\ ErrInv /\ ReturnInv
  BY DEF Init, SlotInv, ErrInv, ReturnInv, After, Index
<1> QED
  BY <1>1, <1>3, <1>4, <1>5 DEF IInv

LEMMA ShapeStep == IInv /\ Next => Shape'
<1> SUFFICES ASSUME IInv, Next PROVE Shape'
  OBVIOUS
<1> USE PoolAssumption DEF Shape, Goto, Stages, group, sem
<1>0. Shape
  BY DEF IInv
<1>1. CASE Go
  BY <1>0, <1>1 DEF Go, Index
<1>2. CASE Return
  BY <1>0, <1>2 DEF Return
<1>3. CASE WakeHead
  <2>1. Head(waiters) \in Index /\ Tail(waiters) \in Seq(Index)
    BY <1>0, <1>3, HeadTailProperties DEF WakeHead, HeadFits
  <2>2. Weight(Head(waiters)) \in Int
    BY <1>0, <2>1, WeightInBudget
  <2> QED
    BY <1>0, <1>3, <2>1, <2>2 DEF WakeHead
<1>4. ASSUME NEW i \in Index, Goroutine(i) PROVE Shape'
  <2>0. Weight(i) \in Int /\ i \in 0..N
    BY <1>0, WeightInBudget DEF Index
  <2>1. CASE AcquireNow(i)
    BY <1>0, <2>0, <2>1 DEF AcquireNow
  <2>2. CASE Enqueue(i)
    <3>0. waiters' = waiters \/ waiters' = Append(waiters, i)
      BY <2>2 DEF Enqueue
    <3>1. waiters' \in Seq(Index)
      BY <1>0, <3>0, AppendProperties
    <3>2. stage' \in [Index -> Stages]
      BY <1>0, <2>2 DEF Enqueue
    <3> QED
      BY <1>0, <2>2, <3>1, <3>2 DEF Enqueue
  <2>3. CASE Analyze(i)
    BY <1>0, <2>3, OutcomeTypes DEF Analyze
  <2>4. CASE DecodeFails(i)
    BY <1>0, <2>4, OutcomeTypes DEF DecodeFails
  <2>5. CASE Release(i)
    BY <1>0, <2>0, <2>5 DEF Release
  <2>6. CASE Unlock(i)
    BY <1>0, <2>6 DEF Unlock
  <2>7. CASE Report(i)
    <3>1. err' \in [pair : 0..N, side : {"none", "old", "new"}]
      BY <1>0, <2>0, <2>7 DEF Report
    <3> QED
      BY <1>0, <2>7, <3>1 DEF Report
  <2>8. CASE Done(i)
    BY <1>0, <2>8 DEF Done
  <2> QED
    BY <1>4, <2>1, <2>2, <2>3, <2>4, <2>5, <2>6, <2>7, <2>8 DEF Goroutine
<1> QED
  BY <1>1, <1>2, <1>3, <1>4 DEF Next

LEMMA QueueStep == IInv /\ Next => QueueInv'
<1> SUFFICES ASSUME IInv, Next PROVE QueueInv'
  OBVIOUS
<1> USE DEF Goto, group, sem
<1>0. Shape /\ QueueInv
  BY DEF IInv
<1>1. ASSUME NEW i, stage[i] # "queued", NEW s, stage' = [stage EXCEPT ![i] = s],
             waiters' = waiters
      PROVE  QueueInv'
  BY <1>0, <1>1 DEF QueueInv, Shape
<1>2. CASE Go
  BY <1>1, <1>2 DEF Go
<1>3. CASE Return
  BY <1>0, <1>3 DEF Return, QueueInv
<1>4. CASE WakeHead
  <2>1. /\ Tail(waiters) \in Seq(Index)
        /\ Len(Tail(waiters)) = Len(waiters) - 1
        /\ \A k \in 1..Len(Tail(waiters)) : Tail(waiters)[k] = waiters[k + 1]
        /\ Head(waiters) = waiters[1]
        /\ Len(waiters) \in Nat \ {0}
    BY <1>0, <1>4, HeadTailProperties, EmptySeq DEF WakeHead, HeadFits, Shape
  <2>2. waiters' = Tail(waiters) /\ stage' = [stage EXCEPT ![waiters[1]] = "working"]
    BY <1>4, <2>1 DEF WakeHead
  <2>3. ASSUME NEW k \in 1..Len(waiters')
        PROVE  waiters'[k] = waiters[k + 1] /\ k + 1 \in 1..Len(waiters) /\ k + 1 # 1
    BY <2>1, <2>2, <2>3
  <2>4. ASSUME NEW k \in 1..Len(waiters')
        PROVE  stage'[waiters'[k]] = "queued"
    <3>1. waiters[k + 1] # waiters[1] /\ stage[waiters[k + 1]] = "queued"
      BY <1>0, <2>1, <2>3 DEF QueueInv
    <3>2. waiters[k + 1] \in Index
      BY <1>0, <2>3, ElementOfSeq DEF Shape
    <3> QED
      BY <1>0, <2>2, <2>3, <3>1, <3>2 DEF Shape
  <2>5. ASSUME NEW j \in 1..Len(waiters'), NEW k \in 1..Len(waiters'), waiters'[j] = waiters'[k]
        PROVE  j = k
    <3>1. j + 1 = k + 1
      BY <1>0, <2>3, <2>5 DEF QueueInv
    <3> QED
      BY <2>1, <2>2, <3>1
  <2> QED
    BY <2>4, <2>5 DEF QueueInv
<1>5. ASSUME NEW i \in Index, Enqueue(i) PROVE QueueInv'
  <2>1. CASE waiters' = waiters
    BY <1>1, <1>5, <2>1 DEF Enqueue
  <2>2. CASE waiters' = Append(waiters, i) /\ stage' = [stage EXCEPT ![i] = "queued"]
    <3>1. /\ Len(waiters') = Len(waiters) + 1
          /\ \A k \in 1..Len(waiters) : waiters'[k] = waiters[k]
          /\ waiters'[Len(waiters) + 1] = i
          /\ Len(waiters) \in Nat
      BY <1>0, <2>2, AppendProperties, LenProperties DEF Shape
    <3>2. stage[i] = "acquiring"
      BY <1>5 DEF Enqueue
    <3>3. \A k \in 1..Len(waiters) : waiters[k] # i
      BY <1>0, <3>2 DEF QueueInv
    <3>4. ASSUME NEW k \in 1..Len(waiters') PROVE stage'[waiters'[k]] = "queued"
      <4>1. k \in 1..Len(waiters) \/ k = Len(waiters) + 1
        BY <3>1
      <4> QED
        BY <1>0, <2>2, <3>1, <3>3, <4>1 DEF QueueInv, Shape
    <3>5. ASSUME NEW j \in 1..Len(waiters'), NEW k \in 1..Len(waiters'), waiters'[j] = waiters'[k]
          PROVE  j = k
      <4>1. /\ j \in 1..Len(waiters) \/ j = Len(waiters) + 1
            /\ k \in 1..Len(waiters) \/ k = Len(waiters) + 1
        BY <3>1
      <4> QED
        BY <1>0, <3>1, <3>3, <3>5, <4>1 DEF QueueInv
    <3> QED
      BY <3>4, <3>5 DEF QueueInv
  <2> QED
    BY <1>5, <2>1, <2>2 DEF Enqueue
<1>6. ASSUME NEW i \in Index, Goroutine(i), ~Enqueue(i) PROVE QueueInv'
  <2>1. stage[i] # "queued" /\ waiters' = waiters /\ \E s : stage' = [stage EXCEPT ![i] = s]
    BY <1>6 DEF Goroutine, AcquireNow, Analyze, DecodeFails, Release, Unlock, Report, Done
  <2> QED
    BY <1>1, <2>1
<1> QED
  BY <1>2, <1>3, <1>4, <1>5, <1>6 DEF Next

LEMMA MutexStep == IInv /\ Next => MutexInv'
<1> SUFFICES ASSUME IInv, Next PROVE MutexInv'
  OBVIOUS
<1> USE DEF Goto, group, sem
<1>0. Shape /\ MutexInv /\ QueueInv
  BY DEF IInv
<1>1. ASSUME NEW i, stage[i] # "releasing", NEW s, s # "releasing",
             stage' = [stage EXCEPT ![i] = s], mu' = mu
      PROVE  MutexInv'
  BY <1>0, <1>1 DEF MutexInv, Shape
<1>2. CASE Go
  BY <1>1, <1>2 DEF Go
<1>3. CASE Return
  BY <1>0, <1>3 DEF Return, MutexInv
<1>4. CASE WakeHead
  BY <1>1, <1>4 DEF WakeHead
<1>5. ASSUME NEW i \in Index, Release(i) PROVE MutexInv'
  BY <1>0, <1>5 DEF Release, MutexInv, Shape, Index
<1>6. ASSUME NEW i \in Index, Unlock(i) PROVE MutexInv'
  BY <1>0, <1>6, PoolAssumption DEF Unlock, MutexInv, Shape, Index
<1>7. ASSUME NEW i \in Index, Goroutine(i), ~Release(i), ~Unlock(i) PROVE MutexInv'
  <2>1. CASE Enqueue(i)
    BY <1>0, <1>1, <2>1 DEF Enqueue, MutexInv, Shape
  <2>2. CASE AcquireNow(i) \/ Analyze(i) \/ DecodeFails(i) \/ Report(i) \/ Done(i)
    BY <1>1, <2>2 DEF AcquireNow, Analyze, DecodeFails, Report, Done
  <2> QED
    BY <1>7, <2>1, <2>2 DEF Goroutine
<1> QED
  BY <1>2, <1>3, <1>4, <1>5, <1>6, <1>7 DEF Next

LEMMA WakeStep == IInv /\ Next => WakeInv'
<1> SUFFICES ASSUME IInv, Next PROVE WakeInv'
  OBVIOUS
<1> USE DEF Goto, group, sem, WakeInv, Fits, Weight
<1>0. Shape /\ WakeInv /\ mu \in 0..N
  BY DEF IInv, Shape
<1>1. CASE Go \/ Return
  BY <1>0, <1>1 DEF Go, Return
<1>2. CASE WakeHead
  BY <1>0, <1>2 DEF WakeHead
<1>3. ASSUME NEW i \in Index, Goroutine(i) PROVE WakeInv'
  <2>0. i # 0
    BY PoolAssumption DEF Index
  <2>1. CASE AcquireNow(i)
    BY <2>1 DEF AcquireNow
  <2>2. CASE Enqueue(i)
    <3>1. CASE waiters' = waiters
      BY <1>0, <2>2, <3>1 DEF Enqueue
    <3>2. CASE waiters' = Append(waiters, i)
      <4>1. Head(waiters') = IF waiters = <<>> THEN i ELSE Head(waiters)
        BY <1>0, <3>2, HeadTailAppend DEF Shape
      <4>2. mu = 0 /\ ~(Fits(i) /\ waiters = <<>>) /\ cur' = cur /\ pairs' = pairs
        BY <2>2 DEF Enqueue
      <4> QED
        BY <1>0, <4>1, <4>2
    <3> QED
      BY <2>2, <3>1, <3>2 DEF Enqueue
  <2>3. CASE Unlock(i)
    BY <2>3 DEF Unlock, HeadFits
  <2>4. CASE Release(i)
    BY <2>0, <2>4 DEF Release
  <2>5. CASE Analyze(i) \/ DecodeFails(i) \/ Report(i) \/ Done(i)
    BY <1>0, <2>5 DEF Analyze, DecodeFails, Report, Done
  <2> QED
    BY <1>3, <2>1, <2>2, <2>3, <2>4, <2>5 DEF Goroutine
<1> QED
  BY <1>1, <1>2, <1>3 DEF Next

LEMMA SlotStep == IInv /\ Next => SlotInv'
<1> SUFFICES ASSUME IInv, Next PROVE SlotInv'
  OBVIOUS
<1> USE PoolAssumption DEF Goto, group, sem, Shape, SlotInv, After, Index
<1>0. Shape /\ SlotInv
  BY DEF IInv
<1>1. CASE Go
  <2>1. /\ stage[next] = "unborn" /\ stage' = [stage EXCEPT ![next] = "acquiring"]
        /\ next' = next + 1
        /\ UNCHANGED <<pairs, err, ret, results>>
    BY <1>1 DEF Go
  <2> QED
    BY <1>0, <2>1
<1>2. CASE Return
  BY <1>0, <1>2 DEF Return
<1>3. CASE WakeHead
  BY <1>0, <1>3 DEF WakeHead
<1>4. ASSUME NEW i \in Index, Goroutine(i) PROVE SlotInv'
  <2>1. CASE AcquireNow(i)
    BY <1>0, <2>1 DEF AcquireNow
  <2>2. CASE Enqueue(i)
    <3>1. /\ stage[i] = "acquiring"
          /\ \E s \in {"parked", "queued"} : stage' = [stage EXCEPT ![i] = s]
          /\ UNCHANGED <<pairs, group, ret, results>>
      BY <2>2 DEF Enqueue
    <3> QED
      BY <1>0, <3>1
  <2>3. CASE Analyze(i)
    BY <1>0, <2>3 DEF Analyze
  <2>4. CASE DecodeFails(i)
    BY <1>0, <2>4 DEF DecodeFails
  <2>5. CASE Release(i)
    BY <1>0, <2>5 DEF Release
  <2>6. CASE Unlock(i)
    BY <1>0, <2>6 DEF Unlock
  <2>7. CASE Report(i)
    <3>1. ret[i] # "none" \/ err # NoError => err' # NoError
      BY <2>7 DEF Report, NoError
    <3> QED
      BY <1>0, <2>7, <3>1 DEF Report
  <2>8. CASE Done(i)
    BY <1>0, <2>8 DEF Done
  <2> QED
    BY <1>4, <2>1, <2>2, <2>3, <2>4, <2>5, <2>6, <2>7, <2>8 DEF Goroutine
<1> QED
  BY <1>1, <1>2, <1>3, <1>4 DEF Next

LEMMA ErrStep == IInv /\ Next => ErrInv'
<1> SUFFICES ASSUME IInv, Next PROVE ErrInv'
  OBVIOUS
<1> USE DEF group, sem, ErrInv
<1>0. Shape /\ SlotInv /\ ErrInv
  BY DEF IInv
<1>1. ASSUME UNCHANGED <<err, ret>> PROVE ErrInv'
  BY <1>0, <1>1
<1>2. ASSUME NEW i \in Index, DecodeFails(i) PROVE ErrInv'
  <2>0. stage[i] \notin After
    BY <1>2 DEF DecodeFails, Goto, After
  <2>1. ret[i] = "none"
    BY <1>0, <2>0 DEF SlotInv
  <2>2. err # NoError => err.pair # i
    BY <1>0, <2>1
  <2>3. err' = err /\ ret' = [ret EXCEPT ![i] = FailingSide(pairs[i])]
    BY <1>2 DEF DecodeFails
  <2> QED
    BY <1>0, <2>2, <2>3 DEF Shape
<1>3. ASSUME NEW i \in Index, Report(i) PROVE ErrInv'
  <2>1. ret' = ret
    BY <1>3 DEF Report
  <2>2. err' = err \/ (err' = [pair |-> i, side |-> ret[i]] /\ ret[i] # "none")
    BY <1>3 DEF Report
  <2> QED
    BY <1>0, <2>1, <2>2
<1> QED
  BY <1>1, <1>2, <1>3 DEF Next, Goroutine, Go, Return, WakeHead, AcquireNow, Enqueue,
     Analyze, Release, Unlock, Done

LEMMA ReturnStep == IInv /\ Next => ReturnInv'
<1> SUFFICES ASSUME IInv, Next PROVE ReturnInv'
  OBVIOUS
<1> USE DEF group, sem, ReturnInv
<1>0. Shape /\ ReturnInv /\ CountInv
  BY DEF IInv
<1>1. CASE Go \/ Return \/ WakeHead
  BY <1>0, <1>1 DEF Go, Return, WakeHead
<1>2. ASSUME NEW i \in Index, Done(i) PROVE ReturnInv'
  <2>1. i \in Alive
    BY <1>2 DEF Done, Goto, Alive
  <2>2. tokens # 0
    BY <1>0, <2>1, CountedSetsFinite, FS_EmptySet DEF CountInv
  <2> QED
    BY <1>0, <1>2, <2>2 DEF Done
<1>3. ASSUME NEW i \in Index, Goroutine(i), ~Done(i) PROVE ReturnInv'
  BY <1>0, <1>3 DEF Goroutine, AcquireNow, Enqueue, Analyze, DecodeFails, Release, Unlock, Report
<1> QED
  BY <1>1, <1>2, <1>3 DEF Next

(* Going from stage to stage without taking or giving back weight or a     *)
(* slot of the limit leaves both counted sets as they are.                 *)
LEMMA CountUnchanged ==
  ASSUME Shape, pairs' = pairs, tokens' = tokens, cur' = cur,
         NEW i, NEW s, stage' = [stage EXCEPT ![i] = s],
         stage[i] \in Holding <=> s \in Holding,
         stage[i] \notin {"unborn", "done"}, s \notin {"unborn", "done"}
  PROVE  CountInv => CountInv'
<1>1. HeldUnits' = HeldUnits
  BY DEF HeldUnits, Weight, Shape
<1>2. Alive' = Alive
  BY DEF Alive, Shape
<1> QED
  BY <1>1, <1>2 DEF CountInv

(* Taking a weight that fits keeps the count.                              *)
LEMMA CountAcquired ==
  ASSUME Shape, CountInv, NEW i \in Index, Fits(i),
         pairs' = pairs, tokens' = tokens, cur' = cur + Weight(i),
         stage' = [stage EXCEPT ![i] = "working"],
         stage[i] \in {"acquiring", "queued"}
  PROVE  CountInv'
<1> DEFINE U == {i} \X (1..Weight(i))
<1>0. Weight(i) \in 0..Budget
  BY WeightInBudget
<1>1. HeldUnits' = HeldUnits \cup U
  BY <1>0, PoolAssumption DEF HeldUnits, Weight, Holding, Shape
<1>2. HeldUnits \cap U = {}
  BY DEF HeldUnits, Holding
<1>3. Cardinality(HeldUnits') = Cardinality(HeldUnits) + Weight(i)
  <2> HIDE DEF U
  <2>1. IsFiniteSet(HeldUnits) /\ Weight(i) \in Nat
    BY <1>0, CountedSetsFinite, PoolAssumption
  <2>2. Cardinality(HeldUnits \cup U) = Cardinality(HeldUnits) + Weight(i)
    BY <1>2, <2>1, UnitsGained DEF U
  <2> QED
    BY <1>1, <2>2
<1>4. Alive' = Alive
  BY DEF Alive, Shape
<1> QED
  BY <1>0, <1>3, <1>4, PoolAssumption DEF CountInv, Fits, Shape

(* So does giving it back.                                                 *)
LEMMA CountReleased ==
  ASSUME Shape, CountInv, NEW i \in Index,
         pairs' = pairs, tokens' = tokens, cur' = cur - Weight(i),
         stage' = [stage EXCEPT ![i] = "releasing"],
         stage[i] = "leaving"
  PROVE  CountInv'
<1> DEFINE U == {i} \X (1..Weight(i))
           H == HeldUnits \ U
<1>0. Weight(i) \in 0..Budget /\ Weight(i) \in Nat
  BY WeightInBudget, PoolAssumption
<1>1. HeldUnits' = H
  BY <1>0, PoolAssumption DEF HeldUnits, Weight, Holding, Shape
<1>2. H \cap U = {}
  OBVIOUS
<1>3. H \cup U = HeldUnits
  BY <1>0, PoolAssumption DEF HeldUnits, Holding
<1>4. IsFiniteSet(H)
  BY CountedSetsFinite, FS_Difference
<1>5. Cardinality(HeldUnits) = Cardinality(H) + Weight(i) /\ Cardinality(H) \in Nat
  <2> HIDE DEF H, U
  <2>1. Cardinality(H \cup U) = Cardinality(H) + Weight(i)
    BY <1>0, <1>2, <1>4, UnitsGained DEF U
  <2> QED
    BY <1>3, <1>4, <2>1, FS_CardinalityType
<1>6. Alive' = Alive
  BY DEF Alive, Shape
<1> QED
  BY <1>0, <1>1, <1>5, <1>6, PoolAssumption DEF CountInv

LEMMA CountStep == IInv /\ Next => CountInv'
<1> SUFFICES ASSUME IInv, Next PROVE CountInv'
  OBVIOUS
<1> USE PoolAssumption DEF Goto, group, sem
<1>0. Shape /\ CountInv /\ SlotInv /\ QueueInv
  BY DEF IInv
<1>1. CASE Go
  <2>1. stage[next] = "unborn" /\ stage' = [stage EXCEPT ![next] = "acquiring"]
        /\ next \in Index /\ pairs' = pairs
    BY <1>1 DEF Go
  <2>2. HeldUnits' = HeldUnits
    BY <1>0, <2>1 DEF HeldUnits, Weight, Holding, Shape
  <2>3. Alive' = Alive \cup {next} /\ next \notin Alive
    BY <1>0, <2>1 DEF Alive, Shape
  <2>4. Cardinality(Alive') = Cardinality(Alive) + 1
    BY <2>3, CountedSetsFinite, FS_AddElement
  <2> QED
    BY <1>0, <1>1, <2>2, <2>4 DEF Go, CountInv, Shape
<1>2. CASE Return
  BY <1>0, <1>2 DEF Return, CountInv, HeldUnits, Weight, Alive
<1>3. CASE WakeHead
  <2>1. Head(waiters) \in Index
    BY <1>0, <1>3, HeadTailProperties DEF WakeHead, HeadFits, Shape
  <2> QED
    BY <1>0, <1>3, <2>1, CountAcquired DEF WakeHead, HeadFits
<1>4. ASSUME NEW i \in Index, Goroutine(i) PROVE CountInv'
  <2>1. CASE AcquireNow(i)
    BY <1>0, <2>1, CountAcquired DEF AcquireNow
  <2>2. CASE Release(i)
    BY <1>0, <2>2, CountReleased DEF Release
  <2>3. CASE Done(i)
    <3>1. HeldUnits' = HeldUnits
      BY <1>0, <2>3 DEF Done, HeldUnits, Weight, Holding, Shape
    <3>2. Alive' = Alive \ {i} /\ i \in Alive
      BY <1>0, <2>3 DEF Done, Alive, Shape
    <3>3. Cardinality(Alive') = Cardinality(Alive) - 1
      BY <3>2, CountedSetsFinite, FS_RemoveElement
    <3> QED
      BY <1>0, <2>3, <3>1, <3>3 DEF Done, CountInv, Shape
  <2>4. CASE Enqueue(i) \/ Analyze(i) \/ DecodeFails(i) \/ Unlock(i) \/ Report(i)
    <3>1. /\ UNCHANGED <<pairs, tokens, cur>>
          /\ \E s : /\ stage' = [stage EXCEPT ![i] = s]
                    /\ stage[i] \in Holding <=> s \in Holding
                    /\ stage[i] \notin {"unborn", "done"}
                    /\ s \notin {"unborn", "done"}
      BY <2>4 DEF Enqueue, Analyze, DecodeFails, Unlock, Report, Holding
    <3> QED
      BY <1>0, <3>1, CountUnchanged
  <2> QED
    BY <1>4, <2>1, <2>2, <2>3, <2>4 DEF Goroutine
<1> QED
  BY <1>1, <1>2, <1>3, <1>4 DEF Next

-----------------------------------------------------------------------------
LEMMA StutterIInv == IInv /\ UNCHANGED vars => IInv'
<1> SUFFICES ASSUME IInv, UNCHANGED vars PROVE IInv'
  OBVIOUS
<1> USE DEF vars, IInv
<1>1. Shape' /\ QueueInv' /\ MutexInv'
  BY DEF Shape, QueueInv, MutexInv
<1>2. WakeInv'
  BY DEF WakeInv, Fits, Weight
<1>3. SlotInv' /\ ErrInv' /\ ReturnInv'
  BY DEF SlotInv, ErrInv, ReturnInv
<1>4. HeldUnits' = HeldUnits /\ Alive' = Alive
  BY DEF HeldUnits, Weight, Alive
<1> QED
  BY <1>1, <1>2, <1>3, <1>4 DEF CountInv

LEMMA IInvStep == IInv /\ [Next]_vars => IInv'
BY StutterIInv, ShapeStep, QueueStep, MutexStep, WakeStep, SlotStep, ErrStep,
   ReturnStep, CountStep DEF IInv

THEOREM Invariance == Spec => []IInv
BY InitIInv, IInvStep, PTL DEF Spec

(* The variables keep their types; the semaphore's count never goes below  *)
(* zero or above the budget (compare.go's Acquire and deferred Release).   *)
THEOREM TypeCorrect == Spec => []TypeOK
<1>1. IInv => TypeOK
  <2> SUFFICES ASSUME IInv PROVE TypeOK
    OBVIOUS
  <2>1. Cardinality(HeldUnits) \in Nat /\ Cardinality(Alive) \in Nat
    BY CountedSetsFinite, FS_CardinalityType
  <2> QED
    BY <2>1, PoolAssumption DEF IInv, Shape, CountInv, TypeOK
<1> QED
  BY <1>1, Invariance, PTL

(* The code being disassembled never weighs more than analyzeBudget, and   *)
(* the semaphore's count is exactly that weight.                           *)
THEOREM BudgetIsRespected == Spec => []BudgetRespected
<1>1. IInv => BudgetRespected
  BY DEF IInv, CountInv, BudgetRespected
<1> QED
  BY <1>1, Invariance, PTL

(* A pair as large as the budget is never disassembled next to other code. *)
THEOREM OversizedRunsAlone == Spec => []OversizedAlone
<1>1. IInv => OversizedAlone
  <2> SUFFICES ASSUME IInv, NEW i \in Index, NEW j \in Index, i # j,
                      stage[i] \in Holding, stage[j] \in Holding,
                      Size(pairs[i]) >= Budget, Size(pairs[j]) # 0
               PROVE  FALSE
    BY DEF OversizedAlone
  <2>0. Shape /\ CountInv
    BY DEF IInv
  <2> DEFINE U == {i} \X (1..Budget)
             one == <<j, 1>>
  <2>1. Weight(i) = Budget /\ Weight(j) >= 1 /\ 1 \in 1..Budget
    BY <2>0, WeightInBudget, PoolAssumption
  <2>2. U \subseteq HeldUnits /\ one \in HeldUnits /\ one \notin U
    BY <2>1, PoolAssumption DEF HeldUnits
  <2>3. IsFiniteSet(U) /\ Cardinality(U) = Budget
    BY UnitsCount, PoolAssumption
  <2> HIDE DEF U, one
  <2>4. Cardinality(U \cup {one}) = Budget + 1
    BY <2>2, <2>3, FS_AddElement
  <2>5. Cardinality(U \cup {one}) <= Cardinality(HeldUnits)
    BY <2>2, CountedSetsFinite, FS_Subset
  <2>6. Cardinality(HeldUnits) <= Budget
    BY <2>0 DEF CountInv
  <2>7. Cardinality(HeldUnits) \in Nat
    BY CountedSetsFinite, FS_CardinalityType
  <2> QED
    BY <2>4, <2>5, <2>6, <2>7, PoolAssumption
<1> QED
  BY <1>1, Invariance, PTL

(* No wakeup is lost: a goroutine at the head of the queue waits only for  *)
(* weight that is really in use.                                           *)
THEOREM WakeupsAreNotLost == Spec => []NoLostWakeup
<1>1. IInv => NoLostWakeup
  <2> SUFFICES ASSUME IInv, mu = 0, waiters # <<>>
               PROVE  ~Fits(Head(waiters)) /\ \E i \in Index : stage[i] \in Holding
    BY DEF NoLostWakeup
  <2>0. Shape /\ CountInv /\ WakeInv
    BY DEF IInv
  <2>1. ~Fits(Head(waiters))
    BY <2>0 DEF WakeInv
  <2>2. Head(waiters) \in Index
    BY <2>0, HeadTailProperties DEF Shape
  <2>3. Weight(Head(waiters)) \in 0..Budget
    BY <2>0, <2>2, WeightInBudget
  <2>4. cur # 0
    BY <2>1, <2>3, PoolAssumption DEF Fits
  <2>5. HeldUnits # {}
    BY <2>0, <2>4, FS_EmptySet DEF CountInv
  <2> QED
    BY <2>1, <2>5 DEF HeldUnits
<1> QED
  BY <1>1, Invariance, PTL

(* The errgroup limit bounds the goroutines that are alive.                *)
THEOREM LimitIsRespected == Spec => []LimitRespected
<1>1. IInv => LimitRespected
  BY DEF IInv, CountInv, LimitRespected, Alive
<1> QED
  BY <1>1, Invariance, PTL

(* When analyze returns, every goroutine has ended and the results, or the *)
(* error, are those of the input.                                          *)
THEOREM ReturnsCompleteResults == Spec => []ReturnIsComplete
<1>1. IInv => ReturnIsComplete
  <2> SUFFICES ASSUME IInv, caller = "returned"
               PROVE  /\ \A i \in Index : stage[i] = "done"
                      /\ err = NoError => \A i \in Index : results[i] = AnalysisOf(pairs[i])
                      /\ err # NoError => /\ err.pair \in Index
                                          /\ err.side = FailingSide(pairs[err.pair])
                                          /\ err.side # "none"
    BY DEF ReturnIsComplete
  <2>0. Shape /\ CountInv /\ SlotInv /\ ErrInv /\ ReturnInv
    BY DEF IInv
  <2>1. Alive = {}
    BY <2>0, CountedSetsFinite, FS_EmptySet DEF CountInv, ReturnInv
  <2>2. \A i \in Index : stage[i] = "done"
    BY <2>0, <2>1, PoolAssumption DEF Alive, SlotInv, ReturnInv, Index
  <2>3. err = NoError => \A i \in Index : results[i] = AnalysisOf(pairs[i])
    BY <2>0, <2>2 DEF SlotInv, After
  <2>4. err # NoError => /\ err.pair \in Index
                         /\ err.side = FailingSide(pairs[err.pair])
                         /\ err.side # "none"
    BY <2>0 DEF SlotInv, ErrInv
  <2> QED
    BY <2>2, <2>3, <2>4
<1> QED
  BY <1>1, Invariance, PTL

-----------------------------------------------------------------------------
(* Once analyze has returned nothing moves.                                *)
LEMMA ReturnedIsFinal ==
  ASSUME IInv, caller = "returned" PROVE ~Next
<1>0. Shape /\ CountInv /\ SlotInv /\ ReturnInv /\ QueueInv
  BY DEF IInv
<1>1. Alive = {}
  BY <1>0, CountedSetsFinite, FS_EmptySet DEF CountInv, ReturnInv
<1>2. \A i \in Index : stage[i] = "done"
  BY <1>0, <1>1, PoolAssumption DEF Alive, SlotInv, ReturnInv, Index
<1>3. ~Go /\ ~Return
  BY DEF Go, Return
<1>4. ~WakeHead
  <2>1. waiters = <<>>
    BY <1>0, <1>2, EmptySeq, ElementOfSeq DEF QueueInv, Shape
  <2> QED
    BY <2>1 DEF WakeHead, HeadFits
<1>5. \A i \in Index : ~Goroutine(i)
  BY <1>2 DEF Goroutine, AcquireNow, Enqueue, Analyze, DecodeFails, Release, Unlock,
     Report, Done, Goto
<1> QED
  BY <1>3, <1>4, <1>5 DEF Next

(* The instance reads a pair as the pool does.                             *)
LEMMA SamePairModel ==
  ASSUME NEW p
  PROVE  /\ Abstract!AnalysisOf(p) = AnalysisOf(p)
         /\ Abstract!FailingSide(p) = FailingSide(p)
BY DEF AnalysisOf, FailingSide, FastPath, HasOld, HasNew, Abstract!AnalysisOf,
   Abstract!FailingSide, Abstract!FastPath, Abstract!HasOld, Abstract!HasNew

(* Every step of the pool is a step of PairAnalysis or leaves its state as *)
(* it is: the abstract step is the caller's return.                        *)
LEMMA RefinementStep ==
  ASSUME IInv, IInv', [Next]_vars
  PROVE  [Abstract!Next]_(Abstract!vars)
<1> USE DEF Abstract!vars
<1>1. CASE UNCHANGED vars
  BY <1>1 DEF vars, Answer
<1>2. CASE Return
  <2>0. Shape' /\ CountInv' /\ SlotInv' /\ ErrInv' /\ ReturnInv'
    BY DEF IInv
  <2>1. /\ caller = "spawning" /\ caller' = "returned"
        /\ UNCHANGED <<pairs, err, results, stage, ret>>
    BY <1>2 DEF Return
  <2>2. Alive = {} /\ next = N + 1 /\ next' = next
    <3>1. tokens = 0 /\ next = N + 1 /\ next' = next
      BY <1>2 DEF Return
    <3>2. tokens = Cardinality(Alive)
      BY DEF IInv, CountInv
    <3> QED
      BY <3>1, <3>2, CountedSetsFinite, FS_EmptySet
  <2>3. \A i \in Index : stage[i] = "done"
    <3>1. \A i \in Index : stage[i] # "unborn"
      BY <2>0, <2>1, <2>2, PoolAssumption DEF SlotInv, Index
    <3> QED
      BY <2>2, <3>1 DEF Alive
  <2>4. Answer = Abstract!Pending
    BY <2>1 DEF Answer, Abstract!Pending
  <2>5. CASE err = NoError
    <3>1. ASSUME NEW i \in Index
          PROVE  FailingSide(pairs[i]) = "none" /\ results[i] = AnalysisOf(pairs[i])
      BY <2>0, <2>1, <2>3, <2>5 DEF SlotInv, After
    <3>2. Abstract!Undecodable = {}
      BY <3>1, SamePairModel DEF Abstract!Undecodable, Index
    <3>3. results = [i \in Index |-> AnalysisOf(pairs[i])]
      BY <2>0, <2>1, <3>1 DEF Shape
    <3>4. Answer' = [kind |-> "ok", results |-> results]
      BY <2>1, <2>5 DEF Answer
    <3>5. Answer' = Abstract!Analysed
      BY <3>3, <3>4, SamePairModel DEF Abstract!Analysed, Index
    <3> QED
      BY <2>1, <2>4, <3>2, <3>5 DEF Abstract!Next, Abstract!Succeed
  <2>6. CASE err # NoError
    <3>1. /\ err.pair \in Index /\ err.side = FailingSide(pairs[err.pair])
          /\ err.side # "none"
      BY <2>0, <2>1, <2>6 DEF SlotInv, ErrInv
    <3>2. err.pair \in Abstract!Undecodable
      BY <3>1, SamePairModel DEF Abstract!Undecodable, Index
    <3>3. Answer' = Abstract!ErrorOf(err.pair)
      BY <2>1, <2>6, <3>1, SamePairModel DEF Answer, Abstract!ErrorOf
    <3> QED
      BY <2>1, <2>4, <3>2, <3>3 DEF Abstract!Next, Abstract!Fail
  <2> QED
    BY <2>5, <2>6
<1>3. CASE Next /\ ~Return
  <2>1. caller = "spawning"
    BY <1>3, ReturnedIsFinal DEF IInv, Shape
  <2>2. caller' = caller /\ pairs' = pairs
    BY <1>3 DEF Next, Go, WakeHead, Goroutine, AcquireNow, Enqueue, Analyze, DecodeFails,
       Release, Unlock, Report, Done, group
  <2> QED
    BY <2>1, <2>2 DEF Answer
<1> QED
  BY <1>1, <1>2, <1>3

(* The pool implements PairAnalysis, its fairness aside: its caller cannot *)
(* tell it from one atomic map over the pairs.                             *)
THEOREM PoolRefinesPairAnalysis ==
  Spec => Abstract!Init /\ [][Abstract!Next]_(Abstract!vars)
<1>1. Init => Abstract!Init
  BY DEF Init, Abstract!Init, Abstract!Pending, Answer, Index
<1> QED
  BY <1>1, Invariance, RefinementStep, PTL DEF Spec

-----------------------------------------------------------------------------
(***************************************************************************)
(* Labels mean the same on both sides, whatever the sides and whatever the *)
(* alignment: proofs about AlignLabels for all inputs.                     *)
(***************************************************************************)

(* The alignment is one to one, and goes no further than the cursors.      *)
AlignInv == \A k \in Positions(old) : oldToNew[k] # None =>
              /\ k < oi /\ oldToNew[k] < ni
              /\ \A j \in Positions(old) : oldToNew[j] = oldToNew[k] => j = k

(* Equal sides are aligned line by line.                                   *)
EqualInv == Masked(old) = Masked(new) =>
              /\ oi = ni
              /\ \A k \in Positions(old) : k < oi => oldToNew[k] = k

(* A number is that of the aligned target, or one that no new target has.  *)
NumberInv == /\ Cardinality(Targets(new)) <= last
             /\ Numbered # {} => Aligned
             /\ \A t \in Numbered :
                  IF oldToNew[t] \in Targets(new) THEN oldNumber[t] = NewNumber(oldToNew[t])
                  ELSE Cardinality(Targets(new)) < oldNumber[t] /\ oldNumber[t] <= last

FreshInv == \A t, u \in Numbered :
              /\ oldToNew[t] \notin Targets(new)
              /\ oldToNew[u] \notin Targets(new)
              /\ oldNumber[t] = oldNumber[u]
              => t = u

LabelInv == AlignTypeOK /\ AlignInv /\ EqualInv /\ NumberInv /\ FreshInv

-----------------------------------------------------------------------------
(* Counting from below tells the elements of a finite set of numbers apart.*)
LEMMA Ranks ==
  ASSUME NEW S \in SUBSET Nat, IsFiniteSet(S)
  PROVE  LET rank(u) == Cardinality({v \in S : v <= u}) IN
         /\ Cardinality(S) \in Nat
         /\ \A u \in S : rank(u) \in 1..Cardinality(S)
         /\ \A t, u \in S : rank(t) = rank(u) => t = u
<1> DEFINE below(u) == {v \in S : v <= u}
           rank(u) == Cardinality(below(u))
<1>1. \A u : /\ IsFiniteSet(below(u)) /\ rank(u) \in Nat
             /\ rank(u) <= Cardinality(S)
  <2> SUFFICES ASSUME NEW u
               PROVE  IsFiniteSet(below(u)) /\ rank(u) \in Nat /\ rank(u) <= Cardinality(S)
    OBVIOUS
  <2>1. below(u) \in SUBSET S
    OBVIOUS
  <2> HIDE DEF below
  <2> QED
    BY <2>1, FS_Subset, FS_CardinalityType
<1>2. Cardinality(S) \in Nat
  BY FS_CardinalityType
<1>3. \A u \in S : rank(u) # 0
  <2> SUFFICES ASSUME NEW u \in S PROVE rank(u) # 0
    OBVIOUS
  <2>1. u \in below(u)
    OBVIOUS
  <2> QED
    BY <1>1, <2>1, FS_EmptySet
<1>4. ASSUME NEW t \in S, NEW u \in S, t < u PROVE rank(t) # rank(u)
  <2>1. below(t) \subseteq below(u)
    <3>1. \A v \in S : v \in Int
      OBVIOUS
    <3>2. \A v \in S : v <= t => v <= u
      BY <1>4, <3>1
    <3> QED
      BY <3>2
  <2>2. u \in below(u) /\ u \notin below(t)
    BY <1>4
  <2> HIDE DEF below
  <2> QED
    BY <1>1, <2>1, <2>2, FS_Subset
<1>5. \A t, u \in S : rank(t) = rank(u) => t = u
  BY <1>4
<1> QED
  BY <1>1, <1>2, <1>3, <1>5

(* Targets are indices of the side, so there are finitely many.            *)
LEMMA TargetsAreIndices ==
  ASSUME AlignTypeOK
  PROVE  /\ Targets(old) \subseteq Positions(old) /\ Targets(new) \subseteq Positions(new)
         /\ \A k \in Positions(old) : At(old, k).target \in Targets(old) \cup {None}
         /\ \A k \in Positions(new) : At(new, k).target \in Targets(new) \cup {None}
         /\ Targets(new) \in SUBSET Nat /\ IsFiniteSet(Targets(new))
         /\ Len(old) \in Nat /\ Len(new) \in Nat
         /\ old \in Seq(Line) /\ new \in Seq(Line)
<1>1. old \in Seq(Line) /\ new \in Seq(Line)
  BY AlignAssumption DEF AlignTypeOK
<1>2. /\ Len(old) \in Nat /\ DOMAIN old = 1..Len(old)
      /\ Len(new) \in Nat /\ DOMAIN new = 1..Len(new)
  BY <1>1
<1>3. /\ \A k \in DOMAIN old : old[k].target \in Positions(old) \cup {None}
      /\ \A k \in DOMAIN new : new[k].target \in Positions(new) \cup {None}
  <2> DEFINE pair == <<old, new>>
  <2>1. pair \in Inputs /\ pair[1] = old /\ pair[2] = new
    BY DEF AlignTypeOK
  <2>2. \A n \in {1, 2} : \A k \in DOMAIN pair[n] : pair[n][k].target \in Positions(pair[n]) \cup {None}
    BY <2>1, AlignAssumption
  <2> QED
    BY <2>1, <2>2
<1>4. /\ \A k \in Positions(old) : At(old, k).target \in Positions(old) \cup {None}
      /\ \A k \in Positions(new) : At(new, k).target \in Positions(new) \cup {None}
  BY <1>2, <1>3 DEF Positions, At
<1>5. Targets(old) \subseteq Positions(old) /\ Targets(new) \subseteq Positions(new)
  BY <1>4 DEF Targets
<1>6. IsFiniteSet(Positions(new))
  BY <1>2, FS_Interval DEF Positions
<1>7. IsFiniteSet(Targets(new))
  BY <1>5, <1>6, FS_Subset
<1>8. Targets(new) \in SUBSET Nat
  BY <1>2, <1>5 DEF Positions
<1> QED
  BY <1>1, <1>2, <1>4, <1>5, <1>7, <1>8 DEF Targets

LEMMA NewNumbers ==
  ASSUME AlignTypeOK
  PROVE  /\ Cardinality(Targets(new)) \in Nat
         /\ \A u \in Targets(new) : NewNumber(u) \in 1..Cardinality(Targets(new))
         /\ \A t, u \in Targets(new) : NewNumber(t) = NewNumber(u) => t = u
BY TargetsAreIndices, Ranks DEF NewNumber

-----------------------------------------------------------------------------
(* What the invariant says of the labels.                                  *)
LEMMA LabelsFollow ==
  ASSUME LabelInv
  PROVE  LabelsMeanAlignment /\ LabelsAreDistinct
<1> USE DEF LabelInv
<1>1. /\ Cardinality(Targets(new)) \in Nat
      /\ \A u \in Targets(new) : NewNumber(u) \in 1..Cardinality(Targets(new))
      /\ \A t, u \in Targets(new) : NewNumber(t) = NewNumber(u) => t = u
  BY NewNumbers
<1>2. \A t \in Numbered : t \in Positions(old) /\ oldNumber[t] \in Nat
  BY TargetsAreIndices DEF Numbered, AlignTypeOK
<1>3. LabelsMeanAlignment
  <2> SUFFICES ASSUME NEW t \in Numbered, NEW u \in Targets(new)
               PROVE  oldNumber[t] = NewNumber(u) <=> oldToNew[t] = u
    BY DEF LabelsMeanAlignment
  <2>1. CASE oldToNew[t] \in Targets(new)
    BY <1>1, <2>1 DEF NumberInv
  <2>2. CASE oldToNew[t] \notin Targets(new)
    <3>1. Cardinality(Targets(new)) < oldNumber[t]
      BY <2>2 DEF NumberInv
    <3> QED
      BY <1>1, <1>2, <2>2, <3>1
  <2> QED
    BY <2>1, <2>2
<1>4. LabelsAreDistinct
  <2>1. ASSUME NEW t \in Numbered, NEW u \in Numbered, oldNumber[t] = oldNumber[u] PROVE t = u
    <3>1. CASE oldToNew[t] \in Targets(new)
      <4>1. oldNumber[u] = NewNumber(oldToNew[t])
        BY <2>1, <3>1 DEF NumberInv
      <4>2. oldToNew[u] = oldToNew[t]
        BY <1>3, <3>1, <4>1 DEF LabelsMeanAlignment
      <4>3. oldToNew[t] # None
        BY <3>1 DEF Targets
      <4> QED
        BY <1>2, <4>2, <4>3 DEF AlignInv
    <3>2. CASE oldToNew[u] \in Targets(new)
      <4>1. oldNumber[t] = NewNumber(oldToNew[u])
        BY <2>1, <3>2 DEF NumberInv
      <4>2. oldToNew[u] = oldToNew[t]
        BY <1>3, <3>2, <4>1 DEF LabelsMeanAlignment
      <4>3. oldToNew[u] # None
        BY <3>2 DEF Targets
      <4> QED
        BY <1>2, <4>2, <4>3 DEF AlignInv
    <3>3. CASE oldToNew[t] \notin Targets(new) /\ oldToNew[u] \notin Targets(new)
      BY <2>1, <3>3 DEF FreshInv
    <3> QED
      BY <3>1, <3>2, <3>3
  <2> QED
    BY <1>1, <2>1 DEF LabelsAreDistinct
<1> QED
  BY <1>3, <1>4

(* Equal sides are numbered alike, and sides that are numbered alike are   *)
(* equal.                                                                  *)
LEMMA NoiseFollows ==
  ASSUME LabelInv
  PROVE  NoiseIsSameFlow
<1> SUFFICES ASSUME AllNumbered, Masked(old) = Masked(new)
             PROVE  OldLines = NewLines <=> old = new
  <2>1. OldLines = NewLines => Masked(old) = Masked(new)
    <3> SUFFICES ASSUME OldLines = NewLines PROVE Masked(old) = Masked(new)
      OBVIOUS
    <3>1. DOMAIN OldLines = Positions(old) /\ DOMAIN NewLines = Positions(new)
      BY DEF OldLines, NewLines
    <3>2. \A k \in Positions(old) : OldLines[k] = <<At(old, k).text, OldLabel(At(old, k).target)>>
      BY DEF OldLines
    <3>3. \A k \in Positions(new) : NewLines[k] = <<At(new, k).text, NewLabel(At(new, k).target)>>
      BY DEF NewLines
    <3>4. \A k \in Positions(old) : At(old, k).text = At(new, k).text
      BY <3>1, <3>2, <3>3
    <3> QED
      BY <3>1, <3>4 DEF Masked
  <2>2. old = new => Masked(old) = Masked(new)
    OBVIOUS
  <2> QED
    BY <2>1, <2>2 DEF NoiseIsSameFlow
<1>1. AlignTypeOK
  BY DEF LabelInv
<1>2. /\ Targets(old) \subseteq Positions(old) /\ Targets(new) \subseteq Positions(new)
      /\ \A k \in Positions(old) : At(old, k).target \in Targets(old) \cup {None}
      /\ \A k \in Positions(new) : At(new, k).target \in Targets(new) \cup {None}
      /\ old \in Seq(Line) /\ new \in Seq(Line)
      /\ Len(old) \in Nat /\ Len(new) \in Nat
  BY <1>1, TargetsAreIndices
<1>3. /\ Positions(old) = Positions(new)
      /\ \A k \in Positions(old) : At(old, k).text = At(new, k).text
  <2>1. Positions(old) = DOMAIN Masked(old) /\ Positions(new) = DOMAIN Masked(new)
    BY DEF Masked
  <2>2. /\ \A k \in Positions(old) : Masked(old)[k] = At(old, k).text
        /\ \A k \in Positions(new) : Masked(new)[k] = At(new, k).text
    BY DEF Masked
  <2> QED
    BY <2>1, <2>2
<1>4. \A k \in Positions(old) : oldToNew[k] = k
  BY <1>2 DEF LabelInv, EqualInv, AllNumbered, Aligned, Positions
<1>5. /\ \A t \in Targets(old) : oldNumber[t] # 0 /\ t # None
      /\ \A u \in Targets(new) : NewNumber(u) # 0 /\ u # None
  <2>1. \A u \in Targets(new) : NewNumber(u) # 0
    BY <1>1, NewNumbers
  <2>2. \A t \in Targets(old) : oldNumber[t] # 0
    BY DEF AllNumbered, Numbered
  <2> QED
    BY <2>1, <2>2 DEF Targets
<1>6. \A t \in Targets(old), u \in Targets(new) : oldNumber[t] = NewNumber(u) <=> t = u
  BY <1>2, <1>4, LabelsFollow DEF LabelsMeanAlignment, AllNumbered
<1>7. \A t \in Targets(old) \cup {None}, u \in Targets(new) \cup {None} :
        OldLabel(t) = NewLabel(u) <=> t = u
  BY <1>5, <1>6 DEF OldLabel, NewLabel
<1>8. OldLines = NewLines <=> \A k \in Positions(old) : At(old, k).target = At(new, k).target
  <2>1. OldLines = NewLines <=>
          \A k \in Positions(old) : OldLabel(At(old, k).target) = NewLabel(At(new, k).target)
    <3> DEFINE f(k) == <<At(old, k).text, OldLabel(At(old, k).target)>>
               g(k) == <<At(new, k).text, NewLabel(At(new, k).target)>>
    <3>1. OldLines = [k \in Positions(old) |-> f(k)] /\ NewLines = [k \in Positions(old) |-> g(k)]
      BY <1>3 DEF OldLines, NewLines
    <3>2. \A k \in Positions(old) : f(k) = g(k) <=> OldLabel(At(old, k).target) = NewLabel(At(new, k).target)
      BY <1>3
    <3> HIDE DEF f, g
    <3>3. OldLines = NewLines <=> \A k \in Positions(old) : f(k) = g(k)
      BY <3>1
    <3> QED
      BY <3>2, <3>3
  <2> QED
    BY <1>2, <1>3, <1>7, <2>1
<1>9. old = new <=> \A k \in Positions(old) : At(old, k).target = At(new, k).target
  <2>1. ASSUME \A k \in Positions(old) : At(old, k).target = At(new, k).target
        PROVE  old = new
    <3>1. Len(old) = Len(new)
      BY <1>2, <1>3 DEF Positions
    <3>2. \A n \in 1..Len(old) : old[n].text = new[n].text /\ old[n].target = new[n].target
      <4> SUFFICES ASSUME NEW n \in 1..Len(old)
                   PROVE  old[n].text = new[n].text /\ old[n].target = new[n].target
        OBVIOUS
      <4>1. n - 1 \in Positions(old) /\ (n - 1) + 1 = n
        BY <1>2 DEF Positions
      <4> QED
        BY <1>3, <2>1, <4>1 DEF At
    <3>3. \A n \in 1..Len(old) : old[n] \in Line /\ new[n] \in Line
      BY <1>2, <3>1
    <3>4. \A n \in 1..Len(old) : old[n] = new[n]
      BY <3>2, <3>3 DEF Line
    <3> QED
      BY <1>2, <3>1, <3>4
  <2> QED
    BY <2>1
<1> QED
  BY <1>8, <1>9

-----------------------------------------------------------------------------
LEMMA InitEstablishes == AlignInit => LabelInv
<1> SUFFICES ASSUME AlignInit PROVE LabelInv
  OBVIOUS
<1>1. PICK pair \in Inputs : old = pair[1] /\ new = pair[2]
  BY DEF AlignInit
<1>2. <<old, new>> \in Inputs
  BY <1>1, AlignAssumption
<1>3. old \in Seq(Line) /\ new \in Seq(Line)
  BY <1>1, AlignAssumption
<1>4. IsFiniteSet(Targets(new))
  <2>1. \A k \in DOMAIN new : new[k].target \in Positions(new) \cup {None}
    BY <1>1, AlignAssumption
  <2>2. Targets(new) \subseteq Positions(new)
    BY <1>3, <2>1 DEF Targets, Positions, At
  <2>3. IsFiniteSet(Positions(new))
    BY <1>3, FS_Interval DEF Positions
  <2> QED
    BY <2>2, <2>3, FS_Subset
<1>5. last \in Nat /\ Cardinality(Targets(new)) <= last
  BY <1>4, FS_CardinalityType DEF AlignInit
<1>6. AlignTypeOK
  BY <1>2, <1>3, <1>5 DEF AlignInit, AlignTypeOK
<1>7. Numbered = {}
  BY DEF AlignInit, Numbered
<1>8. AlignInv
  BY DEF AlignInit, AlignInv
<1>9. EqualInv
  BY <1>3 DEF AlignInit, EqualInv, Positions
<1> QED
  BY <1>5, <1>6, <1>7, <1>8, <1>9 DEF LabelInv, NumberInv, FreshInv

(* A step of the walk comes before the first number.                       *)
LEMMA WalkBeforeNumbers ==
  ASSUME LabelInv, UNCHANGED <<input, oldNumber, last>>, oi < Len(old) \/ ni < Len(new)
  PROVE  (NumberInv /\ FreshInv)'
<1>1. Numbered = {}
  BY TargetsAreIndices DEF LabelInv, NumberInv, Aligned
<1>2. Numbered' = {}
  BY <1>1 DEF Numbered, Targets, Positions, At, input
<1>3. Targets(new)' = Targets(new)
  BY DEF Targets, Positions, At, input
<1> QED
  BY <1>2, <1>3 DEF LabelInv, NumberInv, FreshInv

LEMMA DeletePreserves == LabelInv /\ Delete => LabelInv'
<1> SUFFICES ASSUME LabelInv, Delete PROVE LabelInv'
  OBVIOUS
<1> USE DEF input, Positions
<1>1. Len(old) \in Nat /\ oi \in Nat
  BY TargetsAreIndices DEF LabelInv, AlignTypeOK
<1>2. AlignTypeOK'
  BY <1>1 DEF LabelInv, AlignTypeOK, Delete, Targets, At
<1>3. AlignInv'
  BY <1>1 DEF LabelInv, AlignInv, Delete
<1>4. EqualInv'
  BY DEF LabelInv, EqualInv, Delete, Masked, At
<1> QED
  BY <1>2, <1>3, <1>4, WalkBeforeNumbers DEF LabelInv, Delete

LEMMA InsertPreserves == LabelInv /\ Insert => LabelInv'
<1> SUFFICES ASSUME LabelInv, Insert PROVE LabelInv'
  OBVIOUS
<1> USE DEF input, Positions
<1>1. Len(new) \in Nat /\ ni \in Nat
  BY TargetsAreIndices DEF LabelInv, AlignTypeOK
<1>2. AlignTypeOK'
  BY <1>1 DEF LabelInv, AlignTypeOK, Insert, Targets, At
<1>3. AlignInv'
  <2>1. \A k \in Positions(old) : oldToNew[k] \in Nat \cup {None}
    BY <1>1 DEF LabelInv, AlignTypeOK
  <2> QED
    BY <1>1, <2>1 DEF LabelInv, AlignInv, Insert
<1>4. EqualInv'
  BY DEF LabelInv, EqualInv, Insert, Masked, At
<1> QED
  BY <1>2, <1>3, <1>4, WalkBeforeNumbers DEF LabelInv, Insert

LEMMA KeepPreserves == LabelInv /\ Keep => LabelInv'
<1> SUFFICES ASSUME LabelInv, Keep PROVE LabelInv'
  OBVIOUS
<1> USE DEF input
<1>1. Len(new) \in Nat /\ ni \in Nat /\ Len(old) \in Nat /\ oi \in Nat /\ oi \in Positions(old) /\ ni \in Positions(new)
  BY TargetsAreIndices DEF LabelInv, AlignTypeOK, Keep, Positions
<1>2. /\ oldToNew \in [Positions(old) -> Positions(new) \cup {None}]
      /\ oldToNew' = [oldToNew EXCEPT ![oi] = ni]
      /\ oi' = oi + 1 /\ ni' = ni + 1
      /\ Positions(old)' = Positions(old) /\ Positions(new)' = Positions(new)
  BY DEF LabelInv, AlignTypeOK, Keep, Positions
<1>3. AlignTypeOK'
  BY <1>1, <1>2 DEF LabelInv, AlignTypeOK, Keep, Targets, At
<1>4. AlignInv'
  <2>1. \A k \in Positions(old) : oldToNew[k] \in Nat \cup {None}
    BY <1>1, <1>2 DEF Positions
  <2>2. \A k \in Positions(old) : oldToNew[k] # None => k < oi /\ oldToNew[k] < ni
    BY DEF LabelInv, AlignInv
  <2>3. \A k \in Positions(old) : k \in Nat
    BY <1>1 DEF Positions
  <2>4. \A k \in Positions(old) : oldToNew'[k] = IF k = oi THEN ni ELSE oldToNew[k]
    BY <1>1, <1>2
  <2>5. \A j, k \in Positions(old) : oldToNew'[k] # None /\ oldToNew'[j] = oldToNew'[k] => j = k
    BY <1>1, <2>1, <2>2, <2>4 DEF LabelInv, AlignInv
  <2>6. \A k \in Positions(old) : oldToNew'[k] # None => k < oi + 1 /\ oldToNew'[k] < ni + 1
    BY <1>1, <2>1, <2>2, <2>3, <2>4
  <2> QED
    BY <1>2, <2>5, <2>6 DEF AlignInv
<1>5. EqualInv'
  <2>1. Masked(old)' = Masked(old) /\ Masked(new)' = Masked(new)
    BY DEF Keep, Masked, Positions, At
  <2>2. ASSUME Masked(old) = Masked(new), NEW k \in Positions(old), k < oi + 1
        PROVE  oldToNew'[k] = k
    <3>1. k < oi \/ k = oi
      BY <1>1, <2>2 DEF Positions
    <3> QED
      BY <1>1, <1>2, <2>2, <3>1 DEF LabelInv, EqualInv
  <2>3. Masked(old) = Masked(new) => oi' = ni'
    BY <1>2 DEF LabelInv, EqualInv
  <2> QED
    BY <1>2, <2>1, <2>2, <2>3 DEF EqualInv
<1> QED
  BY <1>3, <1>4, <1>5, WalkBeforeNumbers DEF LabelInv, Keep

LEMMA NumberPreserves == LabelInv /\ Number => LabelInv'
<1> SUFFICES ASSUME LabelInv, Number PROVE LabelInv'
  OBVIOUS
<1> USE DEF input
<1>1. PICK t \in Targets(old) :
        /\ IsNext(t)
        /\ IF oldToNew[t] \in Targets(new)
           THEN /\ oldNumber' = [oldNumber EXCEPT ![t] = NewNumber(oldToNew[t])]
                /\ UNCHANGED last
           ELSE /\ last' = last + 1
                /\ oldNumber' = [oldNumber EXCEPT ![t] = last']
  BY DEF Number
<1>2. /\ Targets(old)' = Targets(old) /\ Targets(new)' = Targets(new)
      /\ Positions(old)' = Positions(old) /\ Positions(new)' = Positions(new)
      /\ Masked(old)' = Masked(old) /\ Masked(new)' = Masked(new)
      /\ Aligned /\ Aligned' /\ oldToNew' = oldToNew
      /\ \A u : NewNumber(u)' = NewNumber(u)
  BY DEF Number, Aligned, Targets, Positions, At, Masked, NewNumber
<1>3. /\ last \in Nat /\ oldNumber \in [Targets(old) -> Nat]
      /\ Cardinality(Targets(new)) \in Nat /\ Cardinality(Targets(new)) <= last
      /\ \A u \in Targets(new) : NewNumber(u) \in 1..Cardinality(Targets(new))
  BY NewNumbers DEF LabelInv, AlignTypeOK, NumberInv
<1>4. t \notin Numbered /\ Numbered' \subseteq Numbered \cup {t} /\ Numbered \subseteq Targets(old)
  BY <1>1, <1>2, <1>3 DEF IsNext, Numbered
<1>5. /\ last' \in Nat /\ last <= last'
      /\ \A u \in Numbered : oldNumber'[u] = oldNumber[u]
      /\ IF oldToNew[t] \in Targets(new) THEN oldNumber'[t] = NewNumber(oldToNew[t])
         ELSE oldNumber'[t] = last + 1 /\ last' = last + 1
  BY <1>1, <1>3, <1>4
<1>6. AlignTypeOK'
  <2>1. oldNumber' \in [Targets(old) -> Nat]
    BY <1>1, <1>3
  <2> QED
    BY <1>2, <1>5, <2>1 DEF LabelInv, AlignTypeOK, Number
<1>7. AlignInv' /\ EqualInv'
  BY <1>2 DEF LabelInv, AlignInv, EqualInv, Number
<1>8. \A u \in Numbered : oldNumber[u] \in Nat
  BY <1>3, <1>4
<1>9. NumberInv'
  <2>1. \A u \in Numbered \cup {t} :
          IF oldToNew[u] \in Targets(new) THEN oldNumber'[u] = NewNumber(oldToNew[u])
          ELSE Cardinality(Targets(new)) < oldNumber'[u] /\ oldNumber'[u] <= last'
    <3> TAKE u \in Numbered \cup {t}
    <3>1. CASE u = t
      BY <1>3, <1>5, <3>1
    <3>2. CASE u \in Numbered
      <4>1. IF oldToNew[u] \in Targets(new) THEN oldNumber[u] = NewNumber(oldToNew[u])
            ELSE Cardinality(Targets(new)) < oldNumber[u] /\ oldNumber[u] <= last
        BY <3>2 DEF LabelInv, NumberInv
      <4> QED
        BY <1>3, <1>5, <1>8, <3>2, <4>1
    <3> QED
      BY <3>1, <3>2
  <2>2. Cardinality(Targets(new)) <= last'
    BY <1>3, <1>5
  <2> QED
    BY <1>2, <1>4, <2>1, <2>2 DEF NumberInv
<1>10. FreshInv'
  <2>1. \A u, v \in Numbered \cup {t} :
          /\ oldToNew[u] \notin Targets(new)
          /\ oldToNew[v] \notin Targets(new)
          /\ oldNumber'[u] = oldNumber'[v]
          => u = v
    <3> SUFFICES ASSUME NEW u \in Numbered \cup {t}, NEW v \in Numbered \cup {t},
                        oldToNew[u] \notin Targets(new), oldToNew[v] \notin Targets(new),
                        oldNumber'[u] = oldNumber'[v]
                 PROVE  u = v
      OBVIOUS
    <3>1. \A w \in Numbered : oldToNew[w] \notin Targets(new) => oldNumber[w] <= last
      BY DEF LabelInv, NumberInv
    <3>2. CASE u \in Numbered /\ v \in Numbered
      BY <1>5, <3>2 DEF LabelInv, FreshInv
    <3>3. CASE u = t /\ v \in Numbered
      BY <1>3, <1>5, <1>8, <3>1, <3>3
    <3>4. CASE v = t /\ u \in Numbered
      BY <1>3, <1>5, <1>8, <3>1, <3>4
    <3> QED
      BY <3>2, <3>3, <3>4
  <2> QED
    BY <1>2, <1>4, <2>1 DEF FreshInv
<1> QED
  BY <1>6, <1>7, <1>9, <1>10 DEF LabelInv

LEMMA StutterPreserves == LabelInv /\ UNCHANGED alignVars => LabelInv'
<1> SUFFICES ASSUME LabelInv, UNCHANGED alignVars PROVE LabelInv'
  OBVIOUS
<1>1. /\ Targets(old)' = Targets(old) /\ Targets(new)' = Targets(new)
      /\ Positions(old)' = Positions(old) /\ Positions(new)' = Positions(new)
      /\ Masked(old)' = Masked(old) /\ Masked(new)' = Masked(new)
      /\ Numbered' = Numbered /\ Aligned' = Aligned
      /\ \A u : NewNumber(u)' = NewNumber(u)
  BY DEF alignVars, Targets, Positions, At, Masked, Numbered, Aligned, NewNumber
<1>2. AlignTypeOK' /\ AlignInv' /\ EqualInv'
  BY <1>1 DEF LabelInv, alignVars, AlignTypeOK, AlignInv, EqualInv
<1>3. NumberInv' /\ FreshInv'
  BY <1>1 DEF LabelInv, alignVars, NumberInv, FreshInv
<1> QED
  BY <1>2, <1>3 DEF LabelInv

LEMMA LabelInvariance == AlignSpec => []LabelInv
<1>1. LabelInv /\ [AlignNext]_alignVars => LabelInv'
  BY DeletePreserves, InsertPreserves, KeepPreserves, NumberPreserves, StutterPreserves DEF AlignNext
<1> QED
  BY InitEstablishes, <1>1, PTL DEF AlignSpec

(* A target has the same label on both sides exactly when its instructions *)
(* are aligned, whatever the sides and the script between them.            *)
THEOREM SameLabelSameInstruction == AlignSpec => []LabelsMeanAlignment
<1>1. LabelInv => LabelsMeanAlignment
  BY LabelsFollow
<1> QED
  BY LabelInvariance, <1>1, PTL

(* No label stands for two targets of one side.                            *)
THEOREM LabelsTellTargetsApart == AlignSpec => []LabelsAreDistinct
<1>1. LabelInv => LabelsAreDistinct
  BY LabelsFollow
<1> QED
  BY LabelInvariance, <1>1, PTL

(* Noise, the equality of the rendered sides, is equality of their masked  *)
(* lines and of their control flow.                                        *)
THEOREM NoiseMeansSameFlow == AlignSpec => []NoiseIsSameFlow
<1>1. LabelInv => NoiseIsSameFlow
  BY NoiseFollows
<1> QED
  BY LabelInvariance, <1>1, PTL

-----------------------------------------------------------------------------
(***************************************************************************)
(* What countSpills believes of registers is so, and what it counts is     *)
(* stack traffic, for every set of instructions and registers.             *)
(***************************************************************************)

(* ScanTypeOK, AliasesAreStack and CountIsTraffic are inductive together.      *)
StackInv == ScanTypeOK /\ AliasesAreStack /\ CountIsTraffic

LEMMA InstTypes ==
  ASSUME NEW in \in Insts
  PROVE  /\ in.args \in Seq(Operand) /\ in.writes \subseteq Reg
         /\ in.weight \in Tally /\ Zero \in Tally
  BY SpillAssumption DEF Inst, Zero, Tally

LEMMA DestIsReg ==
  ASSUME NEW in \in Insts, in.args # <<>>, Defines(in)
  PROVE  DestReg(in) \subseteq Reg
<1>1. DestReg(in) \subseteq in.writes
  BY DefinitionsWrite
<1> QED
  BY <1>1, InstTypes

(* Where the scan sees a definition, the machine computes from SP.         *)
LEMMA DefinesComputes ==
  ASSUME NEW in \in Insts, in.args # <<>>, Defines(in)
  PROVE  Computed(in)
<1>1. in.args \in Seq(Operand) /\ Len(in.args) \in Nat
  BY InstTypes
<1>2. Len(in.args) >= 2 => in.args[1] \in Sources(in)
  <2> SUFFICES ASSUME Len(in.args) >= 2
               PROVE  in.args[1] \in Sources(in)
    OBVIOUS
  <2>1. /\ 1 \in DOMAIN Front(in.args)
        /\ Front(in.args)[1] = in.args[1]
    BY <1>1 DEF Front
  <2> QED
    BY <2>1 DEF Sources, Range
<1>3. CASE in.op = "add" /\ RegArg(SP) \in Sources(in)
  BY <1>3 DEF Computed, RegArg
<1>4. CASE in.op = "mov" /\ Len(in.args) = 2 /\ IsReg(in.args[1], SP)
  <2>1. in.args[1].kind = "reg" /\ in.args[1].reg = SP
    BY <1>4 DEF IsReg, RegArg
  <2> QED
    BY <1>2, <1>4, <2>1 DEF Computed
<1>5. CASE in.op = "lea" /\ Len(in.args) = 2 /\ SP \in MemBase(in.args[1])
  BY <1>2, <1>5 DEF Computed
<1> QED
  BY <1>3, <1>4, <1>5 DEF Defines

LEMMA AliasStep ==
  ASSUME ScanTypeOK, AliasesAreStack, NEW in \in Insts, Scan(in)
  PROVE  AliasesAreStack' /\ alias' \subseteq Reg /\ (~tracks => alias' = {})
<1> USE DEF ScanTypeOK, AliasesAreStack
<1>1. alias' = AliasAfter(in) /\ holds' = HoldsAfter(in) /\ in.args # <<>>
  BY DEF Scan, Skip
<1>2. ~fooled' => ~fooled /\ (in.op # "call" => (in.writes \ DestReg(in)) \cap alias = {})
  BY DEF Scan
<1>3. CASE ~tracks
  BY <1>1, <1>3 DEF AliasAfter
<1>4. CASE tracks /\ in.op = "call"
  BY <1>1, <1>4 DEF AliasAfter
<1>5. CASE tracks /\ in.op # "call" /\ Defines(in)
  <2>1. alias' = alias \cup DestReg(in) /\ holds' = holds \cup in.writes
    BY <1>1, <1>5, DefinesComputes DEF AliasAfter, HoldsAfter
  <2>2. DestReg(in) \subseteq in.writes
    BY <1>1, <1>5, DefinitionsWrite
  <2> QED
    BY <1>1, <1>2, <1>5, <2>1, <2>2, DestIsReg
<1>6. CASE tracks /\ in.op # "call" /\ ~Defines(in)
  <2>1. alias' = alias \ DestReg(in)
    BY <1>1, <1>6 DEF AliasAfter
  <2>2. holds \ in.writes \subseteq holds'
    BY <1>1 DEF HoldsAfter
  <2> QED
    BY <1>2, <1>6, <2>1, <2>2
<1> QED
  BY <1>3, <1>4, <1>5, <1>6

(* An access through fewer registers weighs no more.                       *)
LEMMA WeighMonotone ==
  ASSUME NEW in \in Insts, NEW S, NEW T, S \subseteq T
  PROVE  /\ Weigh(in, S) \in Tally
         /\ AtMost(Weigh(in, S), Weigh(in, T))
<1>1. Through(in, S) => Through(in, T)
  BY DEF Through
<1>2. in.weight \in Tally /\ Zero \in Tally
  BY InstTypes
<1> QED
  BY <1>1, <1>2 DEF Weigh, AtMost, Zero, Tally

LEMMA PlusTally ==
  ASSUME NEW c \in Tally, NEW d \in Tally, NEW e \in Tally, NEW f \in Tally
  PROVE  /\ Plus(c, d) \in Tally
         /\ AtMost(c, e) /\ AtMost(d, f) => AtMost(Plus(c, d), Plus(e, f))
  BY DEF Plus, Tally, AtMost

LEMMA TallyStep ==
  ASSUME StackInv, NEW in \in Insts, Scan(in)
  PROVE  /\ count' \in Tally /\ direct' \in Tally /\ traffic' \in Tally
         /\ CountIsTraffic'
<1> DEFINE s == Weigh(in, {SP})
           a == Weigh(in, {SP} \cup alias)
           h == Weigh(in, {SP} \cup holds)
<1>1. /\ count' = Plus(count, a) /\ direct' = Plus(direct, s) /\ traffic' = Plus(traffic, h)
      /\ ~fooled' => ~fooled
  BY DEF Scan, Weigh
<1>2. s \in Tally /\ a \in Tally /\ h \in Tally /\ AtMost(s, a)
  BY WeighMonotone
<1>3. ~fooled => AtMost(a, h)
  BY WeighMonotone DEF StackInv, AliasesAreStack
<1>4. /\ count \in Tally /\ direct \in Tally /\ traffic \in Tally
      /\ AtMost(direct, count) /\ (~fooled => AtMost(count, traffic))
  BY DEF StackInv, ScanTypeOK, CountIsTraffic
<1> HIDE DEF s, a, h
<1>5. AtMost(direct', count') /\ (~fooled' => AtMost(count', traffic'))
  BY <1>1, <1>2, <1>3, <1>4, PlusTally
<1> QED
  BY <1>1, <1>2, <1>4, <1>5, PlusTally DEF CountIsTraffic, AtMost

LEMMA HoldsStep ==
  ASSUME ScanTypeOK, NEW in \in Insts, Scan(in)
  PROVE  holds' \subseteq Reg /\ fooled' \in BOOLEAN
<1>1. in.writes \subseteq Reg /\ holds \subseteq Reg /\ fooled \in BOOLEAN
  BY InstTypes DEF ScanTypeOK
<1>2. holds' = HoldsAfter(in)
  BY DEF Scan
<1>3. holds' \subseteq Reg
  BY <1>1, <1>2 DEF HoldsAfter
<1>4. fooled' \in BOOLEAN
  BY <1>1 DEF Scan
<1> QED
  BY <1>3, <1>4

-----------------------------------------------------------------------------
LEMMA StackInit == ScanInit => StackInv
<1>1. Zero \in Tally /\ AtMost(Zero, Zero)
  BY DEF AtMost, Zero, Tally
<1>2. 0 \in 0..MaxInsts
  BY SpillAssumption
<1> QED
  BY <1>1, <1>2 DEF ScanInit, StackInv, ScanTypeOK, AliasesAreStack, CountIsTraffic

LEMMA StackNext == StackInv /\ [ScanNext]_scanVars => StackInv'
<1> SUFFICES ASSUME StackInv, [ScanNext]_scanVars PROVE StackInv'
  OBVIOUS
<1>1. CASE Pass
  BY <1>1, SpillAssumption DEF Pass, StackInv, ScanTypeOK, AliasesAreStack, CountIsTraffic, AtMost
<1>2. ASSUME NEW in \in Insts, Scan(in) PROVE StackInv'
  <2>1. /\ tracks' = tracks /\ scanned' \in 0..MaxInsts
    BY <1>2, SpillAssumption DEF Scan, StackInv, ScanTypeOK
  <2>2. AliasesAreStack' /\ alias' \subseteq Reg /\ (~tracks => alias' = {})
    BY <1>2, AliasStep DEF StackInv
  <2>3. holds' \subseteq Reg /\ fooled' \in BOOLEAN
    BY <1>2, HoldsStep DEF StackInv
  <2>4. /\ count' \in Tally /\ direct' \in Tally /\ traffic' \in Tally
        /\ CountIsTraffic'
    BY <1>2, TallyStep
  <2> QED
    BY <2>1, <2>2, <2>3, <2>4 DEF StackInv, ScanTypeOK
<1>3. CASE UNCHANGED scanVars
  BY <1>3 DEF scanVars, StackInv, ScanTypeOK, AliasesAreStack, CountIsTraffic, AtMost
<1> QED
  BY <1>1, <1>2, <1>3 DEF ScanNext

LEMMA StackInvariance == ScanSpec => []StackInv
  BY StackInit, StackNext, PTL DEF ScanSpec

(* What the scan takes for a stack address is one, unless it was           *)
(* overwritten other than as a last operand, for all code of all           *)
(* instruction sets (countSpills, the alias set).                          *)
THEOREM ScanKnowsStack == ScanSpec => []AliasesAreStack
  BY StackInvariance, PTL DEF StackInv

(* Direct accesses are never missed, and with the same proviso nothing but *)
(* stack traffic is counted (countSpills, its two results).                *)
THEOREM ScanCountsTraffic == ScanSpec => []CountIsTraffic
  BY StackInvariance, PTL DEF StackInv
=============================================================================
