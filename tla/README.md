# ixdiff in TLA+

ixdiff compares two builds of a program function by function: it pairs the
functions of two binaries, sorts the pairs into identical, relocation-only,
changed, added and removed, and reports size, instruction and spill changes
and normalised disassembly diffs. This directory specifies it in TLA+, from the command's flags to its exit.
Modules `X.tla` model the code, `MCX.tla` and the `.cfg` files instantiate them
for TLC, `XProofs.tla` holds theorems checked by TLAPS.
`PROJECT.json` maps every definition to the lines it models.

## Inventory

| component | code | state it keeps | operations | what makes it correct |
|---|---|---|---|---|
| analysis pool | `ixdiff/compare.go` `analyze` | errgroup slots, semaphore, result slots | one goroutine per non-identical pair: acquire, analyse or fail, release | bounded bytes in flight, no lost wakeup, always returns, complete results in input order |
| pairing | `internal/fndiff/fndiff.go` `Compare` | pairs, `seen` | pair by name, keep first duplicates, sort | each first definition in exactly one pair, right state |
| rename matching | `internal/fndiff/rename.go` `MatchRenames` | `matched`, `taken` | canonical pass (map order), similarity pass, fold | one-to-one, nothing lost, independent of map order |
| comparison | `ixdiff/compare.go` `Compare` | pairs, edit scripts by name | triage, assemble | states mean what their docs say |
| relocation triage | `internal/norm/reloc*.go` `RelocOnly` | tracked page registers | lockstep walk of two bodies | true only when the normalised text is equal |
| normaliser | `internal/norm/normalize.go` | tracked pages, labels | mask addresses, resolve data symbols | equal text for relocated code, different text for different symbols |
| line diff | `internal/fndiff/diff.go` | edit script | anchors, LIS, LCS, bulk replacement | script rebuilds both sides, minimal where it can be, bounded table |
| label alignment | `internal/fndiff/align.go` | target numbering | renumber branch labels through a diff | same target iff same label |
| opcode/spill counts | `ixdiff/opcount.go`, `spill.go` | counters, pointer aliases | count and subtract | deltas add up |
| packages | `ixdiff/package.go` | per-package sums | aggregate, sort | totals are those of the pairs |
| block matching | `blocks.go` | none | cut into blocks, pair equal ones, find what moved | basic blocks; as few blocks as possible have moved; every instruction once |
| reports | `report.go`, `json.go`, `single.go`, `color.go` | none | summary, top lists, hunks, columns, JSON, single-binary statistics | every change shown once, in order; tables account for the totals |
| command line | `main.go` | flags, open files and mappings, profiles | validate, open, compare, select, print, release | whole reports or an error, nothing read after it is closed, exact names win |
| test support | `internal/testbin` | temp dirs | build binaries for tests | not part of the program |

The parts interact by plain calls: the command opens two binaries, `Compare`
pairs them (`fndiff.Compare`, then `MatchRenames` with a similarity callback
that disassembles), hands every non-identical pair to `analyze`, and assembles
a `Diff` that the reports read. `analyze` is the only concurrent code: its
goroutines share an errgroup, a semaphore and one slice. There are no
timeouts, retries, messages or persistent state.

What is hard to test here: the interleavings of the pool with weights at and
over the budget and with failures; two tie-breaking passes of rename matching
over a Go map's random order; a fast triage that must never say "noise" where
the slow path would see a change; a diff that switches algorithm at a size
bound; several views that must add up to the same totals; a failure at any of a
dozen places of a run, with a report half printed and files open.

## Modules

Every module translates code; parts it calls but does not contain are taken by
their contract, named in its header. `Defect…` operators stand next to a
definition each: they are that definition with a plausible bug (a guard
dropped, a reset forgotten), no specification uses them, and `PROJECT.json`
says which property notices each of them.

| module | code | state and actions |
|---|---|---|
| `Lists` | `slices.SortFunc` and loops that sum, pick or join | operators on lists that several modules share; their lemmas are in `ListProofs` |
| `PairModel` | `Pair`, `analysis` | what `analyze` reads of a pair and the analysis it must come to; operators only |
| `PairAnalysis` | `analyze`, as its caller sees it | abstract: answers once, with all analyses in order or with an error of a pair that does not decode |
| `AnalyzePool` | `analyze` | `Go`, `Return` are the loop and `Wait`; `AcquireNow`, `Enqueue`, `Release`, `WakeHead`, `Unlock` the weighted semaphore with its mutex (`mu`) and FIFO; `Analyze`, `DecodeFails` the goroutine's body; `Report`, `Done` errgroup. Implements `PairAnalysis` |
| `FuncPairing` | `fndiff.Compare`, `Binary.Func`, `TextBytes` | one step per iteration of the two loops (`PairNew`, `PairOld`), then the sort, as any ascending reordering |
| `MatchRenames` | `fndiff.MatchRenames` | `CanonStep` takes the map's entries in any order; `SkipRemoved`, `TryBody` the quadratic pass with its cap; `Merge`, `FoldStep` build the result |
| `Renamings` | `MatchRenames`, as its caller sees it | abstract: the pairs it is given and the list a one-to-one matching makes of them; operators only |
| `RelocWalk` | `RelocOnly` on arm64, riscv64, loong64; the rules of `NormalizeLines` it stands in for | one step per word (`PageStep`, `WordStep`, `Reject`, `LastBytes`); the same words go through `NormalizeLines`' rules beside it |
| `RelocOnly` | `RelocOnly` whole: its dispatch, and the walks for amd64, 386 and arm | extends `RelocWalk`; `Decline`, then `PagedWalk` or one step per instruction or pool word (`InstStep`, `FlatReject`, `Undecodable`, `FlatEnd`) |
| `LineDiff` | `fndiff.Diff`, `ResolveLines` | the recursion is a stack of regions; trimming, anchoring, the LCS table and the bulk replacement are actions |
| `BodySimilar` | `bodySimilar`, `commonLines` | extends `LineDiff`: the two bounds and the verdict on the two lists and their script; operators only |
| `Report` | `hunks`, headers, side-by-side rows of `report.go` | extends `LineDiff`: functions of the resolved lines; operators only |
| `LongestIncreasing` | `LongestIncreasing` | one step per value read, then the walk back along `prev` |
| `Blocks` | `splitBlocks`, `matchBlocks` | extends `LongestIncreasing`, which runs step by step between pairing equal blocks and collecting moves and leftovers |
| `AlignLabels` | `AlignLabels`, `targetNumbers`, `Render` | one step per line of an alignment, then one per old target in any order |
| `Comparison` | `ixdiff.Compare`, `SizeDelta`, `OpDelta`, `OpCount`, `PackageDeltas` | extends `FuncPairing`, whose steps it takes first; `MatchRenames` and `analyze` each in one step by their contract, one step per pair assembled |
| `Rankings` | `rankPairs`, summaries in text and JSON, `Diff.Lines` | extends `Comparison`: functions of the `Diff`; operators only |
| `SpillScan` | `countSpills` | one step per instruction; what the machine's registers really hold is kept beside what the scan believes |
| `NameMatch` | `filterPairs`, `matchFuncs`, `closestNames`, `levenshtein` | operators on names and lists of pairs |
| `BinaryStats` | `Binary.init`, `TextBytes`, `Padding`, `writeStats` | operators on a table of symbols |
| `Command` | `Execute`, `validate`, `writeAll`, `executeFuncs`, the JSON and single-binary reports | one action per stage of a run: each open, compare, decode may fail; one step per function reported, one per resource released |

How they fit together. `Command` is the whole run. Its `Compare` returns some
pairs, which are what `Comparison` makes; its table is any that `rankPairs`
may return, which `Rankings` defines and checks. `Comparison` is the whole of
`Compare`. Its pairing is `FuncPairing`'s next-state relation; its renaming step
allows every match that `MatchesAreOneToOne` and `NothingLost` allow; its
analysis step returns what `PairAnalysis` does, which `AnalyzePool` implements.
The callback of `MatchRenames` is `BodySimilar`'s verdict. `PairModel`'s `fast`
is the verdict of `RelocOnly`, its `equal` the outcome of `AlignLabels` over
`NormalizeLines`, whose alignment is a script as `LineDiff` makes it, whose
anchors are picked by `LongestIncreasing`. `SpillScan` gives the counts of spills
and slots that `Comparison` has as constants (`Traffic`). `Report` and `Blocks` are the two ways a script
or a pair of bodies is printed.

Abstractions a reader should know of:

- Bodies, texts and names are model values or small numbers; in `NameMatch` a
  name is a short sequence of letters, since containment and edit distance look
  at letters. What a regular expression matches is a table. Disassembly is a
  function of the body, or its failure.
- `RelocWalk` and `RelocOnly` choose the words of the two bodies as the walk
  reaches them; arm's old body is chosen at the start, because its loads say
  which words are data. A word is an operation, two register fields, an
  immediate, the rest, and the register that its line ends in, if any; where bits
  of the immediate lie in a register field the two agree (`Encodes`), so that
  every word is one that can be encoded, and any word that is not a page, address,
  branch or access may end in any register (`Renders`). An x86 instruction is an
  operation, a length and its arguments, or it does not decode. Conditional branches on the fixed-width
  architectures stay in their function, as compiled code's do, and no arm
  constant reads as a load. Addresses are small, so 64-bit wrap-around is not
  reached. How a line is rendered is external (the disassembler); what matters
  is which register a line shows, clears or materialises (its last operand, which
  `RelocOnly` takes to be bits 4:0), and which operand is resolved.
- In `Comparison` a body is its normalised text, taken whole, and its mnemonics,
  line by line; a BYTE line has none. The histogram and the instruction count are
  computed of them as the code does, passing over BYTE lines; the scripts have a
  line for each. What `RelocOnly` is sure of (`Provable`) is any set of pairs of
  one size, right or wrong: `Comparison` takes the verdict as `analyze` does,
  and whether it is right is the question of `reloc_walk` and `reloc_clearing`.
- In `LineDiff`, `AlignLabels` and `Blocks` a line is a value of a small set,
  since the code only compares lines.
- `SpillScan` has instructions already split into operands, with their weight.
  It takes code in the order it stands in, as the scan does, so what the
  comment of `countSpills` says of joins is assumed.
- A report is a sequence of items: columns, colours and wording are left out.
  The bytes of a symbol whose name was seen before are not counted as text and
  so appear as padding, in the code as in `BinaryStats`.
- `Comparison` keeps the width of an int (`intBits`), which cuts the 64-bit
  differences that `PackageDeltas` and `rankPairs` sort by, and assumes that a
  whole text fits; then the cut loses nothing. Sorting is by rank: the element at k
  is the one with k - 1 others before it.
- Files are what they were for the whole run of `Command`; the code opens the
  object files a second time by path and would not notice a change.
- errgroup, semaphore, objfile and slices are outside the repository and are
  modelled from how the code uses them.

## What the runs check

| run | instance | shows |
|---|---|---|
| `pool` | 4 pairs, 3 goroutines, budget 3, weights 1, 2 and 3, one clamped, one failing | `cur` is the weight of those disassembling and within the budget; an oversized pair is alone; no wakeup is lost; results complete and in order, or a real error; `analyze` returns; it implements `PairAnalysis` |
| `renames` | all subsets of 3 removed and 4 added, 129 callbacks, cap 6 | one to one, nothing lost, map order irrelevant for canonical names, bodies first fit |
| `reloc_walk` | bodies of 4 words, about 20 choices each, on arm64, riscv64, loong64; of 16 bytes on amd64, 386 and arm | `RelocOnly` true ⇒ normalised lines equal, where no word parts the two and no shared constant is misread (bounds named in `MCRelocWalk`) |
| `reloc_clearing` | arm64 with one B.NE whose condition bits name a page register | a disagreement, below |
| `line_diff` | lists of ≤ 4 lines of 4 texts, tables of ≤ 6 cells; 6 lines with any changed | the script rebuilds both sides with their addresses, is minimal where the table fits, deletes come first, it ends; the bounds of `bodySimilar` reject nothing it would accept; hunks and rows show each change and each line once |
| `blocks` | functions of ≤ 3 instructions with every control flow; ≤ 5 against ≤ 4 one-line blocks | blocks are basic blocks; the blocks left in place are a longest choice and ties blame the later one; every instruction of both sides is in the report once |
| `align_labels` | sides of ≤ 3 instructions, every alignment | labels equal iff targets aligned; rendered equal iff control flow is |
| `comparison` | tables of ≤ 2 functions and some of 3, 3 names, 2 packages, 5 bodies, one with BYTE lines and one that the fast path takes wrongly for a relocation, every rename | each name paired once; states, sides, deltas and scripts are a pair's own; totals, packages, rankings and summaries agree; packages are in order |
| `relocation_statistics` | the same | a disagreement, below |
| `spill_scan` | functions of ≤ 5 instructions, 2 scratch registers | counts lie between direct and all stack traffic |
| `spill_reload` | the same without unnamed writes | a disagreement, below |
| `command` | two flags off their defaults, or three that choose the report; names of ≤ 3 letters; binaries of 3 symbols at small addresses; every failure | a run reports all it was asked or ends in an error; suggestions are nearest; statistics account for the text; nothing is read after its mapping is closed; every run ends with everything released |

Why the bounds are enough to be interesting: four pairs against three slots and
a budget of three give a full limit, a queue of two with a head that does not
fit behind a smaller one that would, and a failure while others wait. Three
removed and four added functions make canonical names that are unique,
ambiguous and empty on either side, and exceed the cap. Four words suffice to
set a page, lose it, set it again and use it, on both sides; sixteen bytes for
a load, its literal pool and a branch over it, or for a call, a reference and a
branch back. Four lines with a table of six cells reach trimming, an exact
table, anchors and the bulk replacement in one script; six lines with one line
of context give hunks that touch, join and split. Five blocks against four
have repeats, moves and ties. Two functions on a side make a diff of up to four
pairs, with a rename, a relocation and sums that cancel. Five instructions
define, copy, overwrite and use an alias twice. Three symbols overlap, nest and
leave gaps small and large. What the runs show on these instances the theorems
below show for all, where there is one.
`MaxInsts`, `WordCount`, `N` and the input sets bound the runs. Deadlock is not
checked where a specification ends because the function it models returns;
`Termination`, `DiffEnds` and `ExitsReleased` show that the stop is the return.

Fairness matters to three specifications. `AnalyzePool` has weak fairness of
the loop and of each goroutine: the Go scheduler runs every runnable goroutine,
and no goroutine loops, so the semaphore's mutex is not held or contended for
ever. `LineDiff` and `Command` have weak fairness of their single sequential
process: it goes on while it can, and whatever it waits for answers or fails.
`PairAnalysis` promises an answer by weak fairness of its one step.
`FuncPairing` and `MatchRenames` have the fairness of a sequential loop too,
but no property rests on it; the others assume none.

## Disagreements found

- `reloc_clearing`: every word the walk accepts clears the register its low
  bits name, also when it writes none (`reloc.go:193`: "over-clearing only
  costs precision"). After `ADRP R1; B.NE …` an `ADD` from `R1` is then no longer
  tracked, passes as an identical word, and `RelocOnly` is true of bodies whose
  normalised lines differ. The words that part the two are named (`Parts`: a line
  that ends in another register than bits 4:0 name, one of them a page register,
  or riscv64's zero register given a page), and the theorems say that they are the
  only way for the two to part. `MCRelocWalk` lists none of them, so `reloc_walk`
  shows nothing of this hazard; `reloc_clearing` does.
- `relocation_statistics`: `README.md:46` excludes relocations from all
  statistics. The packages and `OpDelta` do, the total size delta does not.
- `spill_reload`: `LDP 16(RSP), (R20, R27)` overwrites both registers, but the
  list is split into fragments that name neither, so an alias survives it
  although `spill.go:108` calls the fragments harmless.

Three comments say other than the code does in a case that a property covers.
The property follows the code and its tests, the run passes, and the disagreement
is with the words quoted.

- Repeated names (`PairsByName`, `StatesMatchFunctions`): `README.md:138-139` says
  duplicate static symbols "keep the last definition". `fndiff.Compare`,
  `Binary.Func` and `Binary.init` keep the first (`fndiff.go:75`, `ixdiff.go:74`).
- Blocks (`BlocksAreBasic`): `blocks.go:13-15` begins blocks only at branch
  targets and after unconditional transfers. `blocks.go:77`, the comment at
  `blocks.go:43-46` and `TestSplitBlocks` also cut after conditional branches.
- Diffs in JSON (`ReportsAreWhole`): `json.go:35-37` says `Diff` is present only
  for `--fn` on a changed function. `json.go:66-68` and the code also give it
  under `--all`, and for added and removed functions.

Beside these, two that no run shows. `compare.go:24` says that the bytes of a
relocation-only pair differ; a function renamed without a change of bytes is
changed to `MatchRenames` and relocation-only after analysis.
`StatesMatchFunctions` asks only that the normalised texts are equal or that
`RelocOnly` was sure of the pair. And the
x86 walk accepts an immediate that both bodies share without looking at it
(`relocx86.go:111`), while `NormalizeLines` resolves one that is an address,
for each side by its own symbols; arm's walk likewise accepts a shared pool word
that resolves on neither side, though it may be an address of one binary only.
On 386 immediates can be addresses. Such a step is called `Misread`; the constants
of `MCRelocWalk` leave it out (`ConstantsReadAlike`), since with it
`NeverContradicts` fails as it does in `reloc_clearing`.

## What is proved

The theorems hold for all values of the constants, under the assumptions that
the modules name (`PoolAssumption`, `PairingAssumption`, …: types, and
what the callers guarantee). `tlapm` checks every step.

- `AnalyzeProofs` holds the theorems of the three parts of the analysis of one
  pair. Of `AnalyzePool`: type correctness (the semaphore never goes below zero,
  where it would panic), `BudgetRespected`, `OversizedAlone`, `NoLostWakeup`,
  `LimitRespected`, `ReturnIsComplete`, and that each step is one of
  `PairAnalysis` or none. The inductive invariant adds what the code relies on
  without saying so: which goroutines are in the queue, each once; that `tokens` counts
  those alive; which results are filled in at which stage. The sums over
  goroutines are cardinalities of sets of unit tokens, for which finite-set
  lemmas serve.
- `ComparisonProofs`: `ComparePairsByName`, from an invariant on the prefix read:
  `pairs` holds each name seen once, with the first definitions. For all of
  `Compare`, `StatesTellTheTruth`, `PairsHaveTheirOwnDeltas` and
  `ScriptsAreTheirPairs` follow from `CInv` (a state is true of the texts or is a
  verdict of the fast path, of which only equal sizes are assumed; a script's
  lines are the counted instructions and the BYTE lines, `LinesAreCounted`): the names of `list` are apart, so an
  analysis found by name is that of its own pair; each entry is `Told`, its two
  sides being the first definitions of the names it goes by, also when renamed;
  and the part of the `Diff` assembled is that prefix of `list`, joined. Assumes
  that no function has an empty name, which `RenamedFrom` uses for "none".
  `ViewsAgree`, `PackagesAreInOrder`, `TablesShowTheTop` and `TablesAccountForTotals`
  need besides that `list` is `Whole`: every function of either binary is a side of
  one pair, so the sizes of the new sides are those of the new text, and likewise the
  old. A sum is its running totals (`Running`), which exist by `Recursion`, the lemma
  on what a loop computes; rows and columns of a table have one sum (`SumSwap`), so
  lists that match one to one do (`SumMatch`), and what each package gathers
  (`Gathered`) adds up to what the pairs have. No package or pair changes by more than
  a whole text, so the cut to an int changes no difference of two magnitudes
  (`SizesFit`), the comparator is a strict order, and sorting by it (`SortedFacts`)
  gives each element one place. `RenamesAsMatchRenames` ties the renaming step to
  `MatchRenames`: the pairs reaching it, each side by its function's name (`Given`),
  are a list `MatchRenames` is modelled for, and the lists the step may take, seen
  so, are those `RenamesAreARenaming` says it returns. With that the one step is
  proved to be no narrower than the steps it stands for.
- `MatchRenamesProofs`: `RenamesAreOneToOne` and `RenamesLoseNothing`; the
  invariant says in each pass which removed names may be matched and that the
  fold's output has the sides of the prefix it has read. From it,
  `CanonicalNamesAlwaysDecide` (`CanonDone`: a canonical match is to be looked
  up or made) and `RenamesAreFirstFit` (`FirstFitInv`: the removed functions
  before `r` are settled, and nothing before `a` fits the one at `r`); a later
  match never changes what fitted an earlier function, because it is neither
  canonical nor at an earlier position. `RenamesAreARenaming`: the result is the
  list that one matching makes of the pairs (`Renamings`), the fold's output being
  the kept positions in rising order, of which there is one listing (`ClimbIsNth`).
- `RelocOnlyProofs` assumes nothing of words and constants but that they are
  encodable. `TrackingsPartOnlyThere`: while the walk's registers and
  `NormalizeLines`' map agree (`TrackingAgrees`), a step ends the agreement if and
  only if it is one of `Parting`. `LinesDifferOnlyAfter`: a word that the walk
  accepts is shown alike unless the two have parted before. From these
  `FastPathNeverContradicts`: in runs without such a step a true result means equal
  lines; `reloc_clearing` shows a run with one where it does not.
  `RelocOnlyNeverContradicts` is the same for all of `RelocOnly`, the
  specification that `reloc_walk` checks: the paged walks keep that invariant;
  on the others every accepted argument is shown alike unless the step is
  `Misread`, which on arm needs that a word is data exactly when the pool says so.
- `LineDiffProofs`: `ScriptInvariant`, from it `ScriptRebuildsBothSides`: the
  edits so far, followed by the regions on the stack from its top, are the two
  lists in order. `DeletesFirstEverywhere` adds that after a trailing insert the
  region on top does not begin with a delete; in the exact walk this rests on
  the table being the length of a longest matching, which is proved of its
  recursion by induction on the cells. `DiffIsMinimal` rests on the same and
  on what trimming a common prefix or suffix does to a longest matching: the
  lines kept and the worth of the regions left never fall below that of the
  whole. `SimilarIsWhatTheScriptSays` is about `BodySimilar`: the lines a script keeps
  are no more than the shorter side has, nor than the lines of the new side that
  the counting loop finds a partner for, by an injection of the one into the other.
  About `Report`, `HunksAreWhole` follows the grouping loop: an open hunk is the run
  of lines from its first shown line to the last change read, what is shown so far is
  what lies near a change read, and hunks are apart from each other. Headers ascend
  because every hunk after the first begins with an equal line, which has a place on
  both sides; this needs a context of at least one line (`ReportAssumption`; the code
  has 3). `RowsAreComplete` follows the row loop: the columns list the lines of their
  side read so far, and a divergence begins only after an equal line; with deletes
  before inserts (`DeletesFirstEverywhere`) one divergence is one zip.
- `BlocksProofs`: `SearchIsSound`, `PatienceIsBest`, `LongestIsLongest` of
  `LongestIncreasing` alone: the invariant bounds every increasing subsequence
  of the values read by the tails, follows `prev` from each tail, and says that
  of the elements of one rank the tail is the latest. Of all of `Blocks`:
  `BlocksAreCutRight`, `LaterBlocksMove`, `EachInstructionOnce` and
  `LongestInBlocks`. A recursive function computes the blocks, so its values are
  shown to exist and then to keep `Parts`: blocks up to a line, each entered and
  left only at its ends, and one still open. The pairing keeps that a new block has
  an equal old one of its own or no equal one is free. The search runs on the
  pairs mirrored, so the latest of its answers is the earliest of the pairs
  that can stay.
  Of `AlignLabels`: `SameLabelSameInstruction`, `LabelsTellTargetsApart`,
  `NoiseMeansSameFlow`: the alignment is one to one, fresh numbers lie
  above those of all new targets. Of `SpillScan`: `ScanKnowsStack`,
  `ScanCountsTraffic`, whose three invariants are inductive together; they assume
  `DefinitionsWrite`, that an instruction the scan takes for a definition writes its
  last operand.
- `CommandProofs`: `LevenshteinIsEditDistance`: the two rows that `levenshtein`
  writes over one another hold, after each letter, the least number of edits between
  the prefixes read; a fold is a loop, of which `Loop` in `ListProofs` gives an
  invariant. `NearestSuggested` (`SuggestionsAreNearest`) needs that distance to be
  the same both ways, and that the suggestions are an ascending list cut short.
  `CommandInvariant` has four parts, each a fact of the stages passed: which flags
  were accepted (`FlagsInv`), what is held and in which order it was taken
  (`HeldInv`), which reports are collected of how many pairs (`WorkInv`), and what an
  error leaves (`ErrorInv`). `CommandTypes` and `ReadsMapped` (`ReadsAreMapped`:
  nothing is decoded of a binary that is not mapped) follow. `ReportsWhole`
  (`ReportsAreWhole`) adds `ShownInv`, what is printed by each stage: a report in
  progress is the items of the pairs done, in order, and one that ends without an
  error is all that its flags asked for and nothing else. `StatsAccounted`
  (`StatsAccountForText`) is about `BinaryStats`. After each function the sweep of
  `Padding` stands at the furthest end so far and has counted what no function covers
  below it (`Swept`); the next gap is all of what lies bare before the next function
  (`GapIs`), and is large as a whole or not at all, since a function ends or begins at
  either side of it. The packages are the first of a sorted set (`TopOf`), and what they
  have and what the rest has adds up by rows and columns (`SharesAddUp`).

What a theorem settles for all constants no run repeats when it is a step
towards a checked property: `LimitRespected`, `TrackingAgrees`,
`LabelsAreDistinct`, `AliasesAreStack`, `TailsIncrease`, `TailsAreBest` and the
type invariants of those modules are theorems or conjuncts of the inductive
invariants. `ComparePairsByName` is about `FuncPairing` by itself; `comparison` checks its
property where it runs inside `Comparison`. Type invariants of the other
modules are the first conjunct of the property that relies on them.

Every invariant and action property that a run checks is stated by a theorem. Only
model-checked is liveness (`Termination`, `DiffEnds`, `ExitsReleased`, the
fairness part of the refinement), since liveness under fairness and ENABLED are
out of the prover's reach. The prover cannot use induction theorems
that take an operator, so a recursive definition is proved about only where
induction on a least counterexample or on the steps of a loop serves (`SplitBlocks`,
`Leftover`, `CommonLines`, `Hunks`, `SideRows`, `Levenshtein`, `Padding`, the table of
`LineDiff`, `SumOf` and `Flat` and the totals made of them), and no module with a
theorem reaches a RECURSIVE operator.

## Not modelled, and the plan

Partly modelled is the normaliser. Its rules for wasm constants and type
indices, ppc64's ADDIS pairs, s390x's relative references and the masking of
stack displacements rewrite the text of one operand each; `RelocOnly` has no
walk for those architectures, so nothing is compared with them, and their order
in `arg` matters only to the text.

Left out for good: decoding and rendering of instructions and reading of object
files (`objfile`, outside the repository), regular expressions as text, colours
and column layout, and `internal/testbin`, which builds binaries for the tests.
`canonicalName` and `pkgOf` are parameters.
