------------------------------- MODULE Blocks -------------------------------
(***************************************************************************)
(* The block-matched diff of one function (src/blocks.go): both sides are  *)
(* cut into basic blocks, equal blocks are paired, and those that keep     *)
(* their order stay in place.  Which do is the answer of LongestIncreasing,*)
(* which runs here step by step.  An instruction's address is its index,   *)
(* counted from 1; target 0 is none (-1 in the code).                      *)
(***************************************************************************)
EXTENDS LongestIncreasing, SequencesExt

CONSTANTS Text,           \* rendered instructions
          Sides,          \* pairs of functions, aligned and rendered
          Unconditional   \* texts after which control never falls through

Instruction == [text : Text, target : Nat]

ASSUME BlocksAssumption ==
  /\ Sides \subseteq Seq(Instruction) \X Seq(Instruction)
  /\ \A pair \in Sides : \A side \in {1, 2} : \A k \in DOMAIN pair[side] :
       pair[side][k].target \in 0..Len(pair[side])

VARIABLES old, new,              \* the instructions of each side
          oldBlocks, newBlocks,  \* blocks, as the addresses of their lines
          matched,               \* old block of each new block, or 0
          moves, restOld, restNew, \* what matchBlocks returns
          stage

sides == <<old, new>>
results == <<moves, restOld, restNew>>
blocksVars == <<sides, oldBlocks, newBlocks, matched, results, stage>>

-----------------------------------------------------------------------------
(* targetSet and blockEnds.                                                *)
Leaders(s) == {1} \cup ({s[k].target : k \in DOMAIN s} \ {0})

(* Seeded defects stand before the definitions they replace; no            *)
(* specification uses one.                                                 *)
DefectEnds(s) == {k \in DOMAIN s : s[k].text \in Unconditional}
Ends(s) == {k \in DOMAIN s : s[k].target # 0 \/ s[k].text \in Unconditional}

(* splitBlocks cuts before each leader and after each end.                 *)
Flush(st) == IF st.cur = <<>> THEN st ELSE [blocks |-> Append(st.blocks, st.cur), cur |-> <<>>]
Grow(s, st, k) ==
  LET led == IF k \in Leaders(s) THEN Flush(st) ELSE st
      grown == [blocks |-> led.blocks, cur |-> Append(led.cur, k)]
  IN  IF k \in Ends(s) THEN Flush(grown) ELSE grown
SplitBlocks(s) ==
  LET after[k \in 0..Len(s)] == IF k = 0 THEN [blocks |-> <<>>, cur |-> <<>>]
                                ELSE Grow(s, after[k - 1], k)
  IN  Flush(after[Len(s)]).blocks

Content(s, b) == [k \in DOMAIN b |-> s[b[k]].text]

BlocksInit == /\ \E pair \in Sides : old = pair[1] /\ new = pair[2]
              /\ oldBlocks = <<>> /\ newBlocks = <<>> /\ matched = <<>>
              /\ moves = <<>> /\ restOld = <<>> /\ restNew = <<>>
              /\ stage = "split"
              /\ values = <<>> /\ i = 0 /\ tails = <<>> /\ prev = [x \in {} |-> -1] /\ out = <<>>

Split == /\ stage = "split"
         /\ oldBlocks' = SplitBlocks(old)
         /\ newBlocks' = SplitBlocks(new)
         /\ stage' = "match"
         /\ UNCHANGED <<sides, matched, results, vars>>

(* A new block takes the first equal old one that is still free.           *)
MatchBlock ==
  /\ stage = "match"
  /\ Len(matched) < Len(newBlocks)
  /\ LET key == Content(new, newBlocks[Len(matched) + 1])
         free == {k \in DOMAIN oldBlocks : Content(old, oldBlocks[k]) = key /\ k \notin Range(matched)}
     IN  matched' = Append(matched, IF free = {} THEN 0 ELSE Min(free))
  /\ UNCHANGED <<sides, oldBlocks, newBlocks, results, stage, vars>>

-----------------------------------------------------------------------------
(* The numbers of a set as the loops that collect them meet them.          *)
Ascending(S) ==
  [k \in 1..Cardinality(S) |-> CHOOSE x \in S : Cardinality({y \in S : y < x}) = k - 1]

(* pairedNew, in order; the old block of each, from the last one, negated. *)
PairedNew == Ascending({k \in DOMAIN matched : matched[k] # 0})

DefectReversed == [k \in DOMAIN PairedNew |-> -matched[PairedNew[k]]]
Reversed == [k \in DOMAIN PairedNew |-> -matched[PairedNew[Len(PairedNew) + 1 - k]]]

OrderPairs == /\ stage = "match"
              /\ Len(matched) = Len(newBlocks)
              /\ values' = Reversed
              /\ prev' = [x \in 0..(Len(PairedNew) - 1) |-> -1]
              /\ stage' = "search"
              /\ UNCHANGED <<i, tails, out, sides, oldBlocks, newBlocks, matched, results>>

SearchRun == /\ stage = "search"
             /\ Next
             /\ UNCHANGED blocksVars

(* The pairs that LongestIncreasing picked, as positions in PairedNew.     *)
InPlace == {Len(values) - k : k \in Range(out)}

(* The lines of the blocks that are not taken.                             *)
Leftover(blocks, taken) ==
  LET rest[n \in 0..Len(blocks)] == IF n = 0 THEN <<>>
                                    ELSE IF n \in taken THEN rest[n - 1]
                                    ELSE rest[n - 1] \o blocks[n]
  IN  rest[Len(blocks)]

Moved == Ascending(DOMAIN PairedNew \ InPlace)
Move(n) == [oldAddr |-> oldBlocks[matched[n]][1],
            newAddr |-> newBlocks[n][1],
            insts   |-> Len(newBlocks[n])]

DefectFinishSwapsSides ==
  /\ stage = "search"
  /\ i = Len(values) /\ Len(out) = Len(tails)
  /\ moves' = [k \in DOMAIN Moved |-> Move(PairedNew[Moved[k]])]
  /\ restOld' = Leftover(oldBlocks, Range(PairedNew))
  /\ restNew' = Leftover(newBlocks, Range(PairedNew))
  /\ stage' = "done"
  /\ UNCHANGED <<vars, sides, oldBlocks, newBlocks, matched>>

Finish ==
  /\ stage = "search"
  /\ i = Len(values) /\ Len(out) = Len(tails)
  /\ moves' = [k \in DOMAIN Moved |-> Move(PairedNew[Moved[k]])]
  /\ restOld' = Leftover(oldBlocks, Range(matched))
  /\ restNew' = Leftover(newBlocks, Range(PairedNew))
  /\ stage' = "done"
  /\ UNCHANGED <<vars, sides, oldBlocks, newBlocks, matched>>

BlocksNext == Split \/ MatchBlock \/ OrderPairs \/ SearchRun \/ Finish

BlocksSpec == BlocksInit /\ [][BlocksNext]_<<vars, blocksVars>>

-----------------------------------------------------------------------------
BlocksTypeOK ==
  /\ TypeOK
  /\ \A s \in {old, new} : \A k \in DOMAIN s : s[k].target \in 0..Len(s)
  /\ stage \in {"split", "match", "search", "done"}
  /\ matched \in Seq(0..Len(oldBlocks))
  /\ \A k \in DOMAIN oldBlocks : oldBlocks[k] \in Seq(DOMAIN old) \ {<<>>}
  /\ \A k \in DOMAIN newBlocks : newBlocks[k] \in Seq(DOMAIN new) \ {<<>>}
  /\ moves \in Seq([oldAddr : DOMAIN old, newAddr : DOMAIN new, insts : Nat \ {0}])
  /\ restOld \in Seq(DOMAIN old) /\ restNew \in Seq(DOMAIN new)

(* Where control may go from line k, a call returning to the next line.    *)
Successors(s, k) == ({s[k].target} \ {0}) \cup (IF s[k].text \in Unconditional THEN {} ELSE {k + 1})

(* blocks.go:43-46 and TestSplitBlocks (blocks_test.go:19-34): control     *)
(* enters a block only at its first line and leaves it only after its last *)
(* one, a block ends only where it may be entered or left, and the blocks  *)
(* of a side are its lines in order.  The comment on the type block        *)
(* (blocks.go:13-15) has blocks start only at targets and after            *)
(* unconditional transfers; the code cuts after conditional branches too.  *)
Basic(s, blocks) ==
  /\ (blocks = <<>>) = (s = <<>>)
  /\ s # <<>> => Last(Last(blocks)) = Len(s)
  /\ \A n \in DOMAIN blocks :
       LET b == blocks[n]
           before == IF n = 1 THEN 0 ELSE Last(blocks[n - 1])
       IN  /\ \A k \in DOMAIN b : b[k] = before + k
           /\ \A k \in 2..Len(b) : \A j \in DOMAIN s : s[j].target # b[k]
           /\ \A k \in 1..(Len(b) - 1) : Successors(s, b[k]) = {b[k] + 1}
           /\ n < Len(blocks) => \/ Successors(s, Last(b)) # {Last(b) + 1}
                                 \/ \E j \in DOMAIN s : s[j].target = Last(b) + 1

BlocksAreBasic ==
  /\ BlocksTypeOK
  /\ stage # "split" => Basic(old, oldBlocks) /\ Basic(new, newBlocks)

(* Only what has no equal on the other side is diffed: no block is left    *)
(* over on both, however often it occurs.                                  *)
LeftoversShareNoBlock ==
  stage = "done" =>
    \A m \in DOMAIN oldBlocks, n \in DOMAIN newBlocks :
      oldBlocks[m][1] \in Range(restOld) /\ newBlocks[n][1] \in Range(restNew)
        => Content(old, oldBlocks[m]) # Content(new, newBlocks[n])

(* Every instruction of either side is shown once: among the leftovers, in *)
(* order, in one moved block, or in one that stayed in place, and then the *)
(* other side has an equal block.  So a function that did change is never  *)
(* reported as "all blocks match", and no block is left over on both sides.*)
BlockAt(blocks, addr) == CHOOSE n \in DOMAIN blocks : blocks[n][1] = addr
MovedBlocks(blocks, Addr(_)) == {BlockAt(blocks, Addr(moves[k])) : k \in DOMAIN moves}
Rises(s) == \A j, k \in DOMAIN s : j < k => s[j] < s[k]

EveryInstructionOnce ==
  /\ LeftoversShareNoBlock
  /\ stage = "done" =>
       LET movedOld == MovedBlocks(oldBlocks, LAMBDA m : m.oldAddr)
           movedNew == MovedBlocks(newBlocks, LAMBDA m : m.newAddr)
           Stayed(blocks, moved, rest) ==
             Ascending({n \in DOMAIN blocks : n \notin moved /\ blocks[n][1] \notin Range(rest)})
           stayedOld == Stayed(oldBlocks, movedOld, restOld)
           stayedNew == Stayed(newBlocks, movedNew, restNew)
       IN  /\ Rises(restOld) /\ Rises(restNew)
           /\ \A n \in DOMAIN oldBlocks : Range(oldBlocks[n]) \cap Range(restOld) \in {{}, Range(oldBlocks[n])}
           /\ \A n \in DOMAIN newBlocks : Range(newBlocks[n]) \cap Range(restNew) \in {{}, Range(newBlocks[n])}
           /\ Cardinality(movedOld) = Len(moves) /\ Cardinality(movedNew) = Len(moves)
           /\ \A n \in movedOld : oldBlocks[n][1] \notin Range(restOld)
           /\ \A k \in DOMAIN moves :
                LET ob == oldBlocks[BlockAt(oldBlocks, moves[k].oldAddr)]
                    nb == newBlocks[BlockAt(newBlocks, moves[k].newAddr)]
                IN  Content(old, ob) = Content(new, nb) /\ Len(nb) = moves[k].insts
           /\ Len(stayedOld) = Len(stayedNew)
           /\ \A k \in DOMAIN stayedOld :
                Content(old, oldBlocks[stayedOld[k]]) = Content(new, newBlocks[stayedNew[k]])

(* blocks.go:119-123: as few of the matched blocks moved as can be, and of *)
(* the ways to have so few, the ones that keep the blocks earliest in new  *)
(* order stay: of two swapped blocks, the later one moved.                 *)
Paired == Range(PairedNew)
Uncrossed(S) == \A x, y \in S : x < y => matched[x] < matched[y]
Earlier(S, T) == \E x \in S \ T : \A y \in T \ S : x < y

TiesBlameTheLater ==
  stage = "done" =>
    LET kept == Paired \ MovedBlocks(newBlocks, LAMBDA m : m.newAddr)
    IN  /\ Uncrossed(kept)
        /\ \A S \in SUBSET Paired :
             Uncrossed(S) => \/ Cardinality(S) < Cardinality(kept)
                             \/ S = kept
                             \/ (Cardinality(S) = Cardinality(kept) /\ Earlier(kept, S))
=============================================================================
